---- MODULE Spec2Model ----
(***************************************************************************)
(* A model of the xv6 kernel core of this repository: the write-ahead log  *)
(* (fileSystem/log.c), the buffer cache and spinlock/sleep discipline      *)
(* (fileSystem/bio.c, synchronization/, proc.c), the file table and pipes  *)
(* (file.c, pipe.c, sysfile.c), trap dispatch (systemCall/trap.c) and      *)
(* system-call argument fetch (syscall.c).                                 *)
(*                                                                         *)
(* Each subsystem has its own group of variables and its own               *)
(* specification; a specification leaves the other groups unchanged.       *)
(***************************************************************************)
EXTENDS Integers, Sequences, FiniteSets, TLC

(***************************************************************************)
(* Program constants (type/param.h).                                       *)
(***************************************************************************)
MAXOPBLOCKS == 10
LOGSIZE == MAXOPBLOCKS * 3

(***************************************************************************)
(* Bounds of the model.                                                    *)
(***************************************************************************)
NLogProcs == 3     \* processes issuing file-system operations
NHome == 2         \* home blocks a transaction may write
MaxVal == 1        \* block contents range over 0..MaxVal
MaxOps == 3        \* operations admitted by begin_op in one behaviour
MaxCrashes == 1    \* crash-stops in one behaviour

NoPanic == "none"

(***************************************************************************)
(* ------------------------- The log (log.c) ---------------------------- *)
(***************************************************************************)
VARIABLES
    dhead,        \* on-disk log header block: [n, block]
    dlog,         \* on-disk log data blocks, dlog[i] is block log.start+1+i
    dhome,        \* on-disk home blocks
    chome,        \* buffer-cache data of the home blocks (NotCached: not B_VALID)
    lh_n,         \* log.lh.n
    lh_block,     \* log.lh.block[]
    outstanding,  \* log.outstanding
    committing,   \* log.committing
    lpc,          \* where each process stands in begin_op/log_write/end_op
    ltail,        \* the loop variable tail/i of write_log and install_trans
    lzero,        \* per process: the test log.outstanding == 0 of its end_op
    boot,         \* position of initlog/recover_from_log at boot, or "run"
    rtail,        \* loop variable of install_trans during recovery
    lpanic,       \* the panic message once the kernel has panicked
    nops,         \* operations admitted so far
    ncrash,       \* crash-stops so far
    txn,          \* history: the transaction a running commit is installing
    crashTxn      \* history: the transaction that was committing at the crash

logVars == <<dhead, dlog, dhome, chome, lh_n, lh_block, outstanding, committing,
             lpc, ltail, lzero, boot, rtail, lpanic, nops, ncrash, txn, crashTxn>>

LogProcs == 1..NLogProcs
HomeBlocks == 1..NHome
Values == 0..MaxVal
\* The arrays block[LOGSIZE] are tuples: C's block[i] is block[i + 1] here.
LogSlots == 1..LOGSIZE
NotCached == -1
NoTxn == [active |-> FALSE]

\* log.size = sb.nlog, which mkfs sets to LOGSIZE
log_size == LOGSIZE

ZeroHeader == [n |-> 0, block |-> [i \in LogSlots |-> 0]]

LogInit ==
    /\ dhead = ZeroHeader
    /\ dlog = [i \in LogSlots |-> 0]
    /\ dhome = [b \in HomeBlocks |-> 0]
    /\ chome = [b \in HomeBlocks |-> NotCached]
    /\ lh_n = 0
    /\ lh_block = [i \in LogSlots |-> 0]
    /\ outstanding = 0
    /\ committing = 0
    /\ lpc = [p \in LogProcs |-> "idle"]
    /\ ltail = [p \in LogProcs |-> 0]
    /\ lzero = [p \in LogProcs |-> FALSE]
    /\ boot = "read_head"
    /\ rtail = 0
    /\ lpanic = NoPanic
    /\ nops = 0
    /\ ncrash = 0
    /\ txn = NoTxn
    /\ crashTxn = NoTxn

\* bread of a home block: the cached data if B_VALID, else the disk's
bread_home(b) == IF chome[b] = NotCached THEN dhome[b] ELSE chome[b]

\* wakeup(&log): every process sleeping in begin_op becomes runnable
wakeup_log(pcs) ==
    [p \in LogProcs |-> IF pcs[p] = "begin_sleep" THEN "begin_retry" ELSE pcs[p]]

LogUp == boot = "run" /\ lpanic = NoPanic

\* One pass of begin_op's loop, under log.lock.  A call starts at "idle"
\* and is counted; a woken sleeper re-enters at "begin_retry".
begin_op(p) ==
    /\ LogUp
    /\ \/ lpc[p] = "idle" /\ nops < MaxOps /\ nops' = nops + 1
       \/ lpc[p] = "begin_retry" /\ nops' = nops
    /\ IF committing /= 0
       THEN /\ lpc' = [lpc EXCEPT ![p] = "begin_sleep"]
            /\ UNCHANGED outstanding
       ELSE IF lh_n + (outstanding + 1) * MAXOPBLOCKS > LOGSIZE
       THEN /\ lpc' = [lpc EXCEPT ![p] = "begin_sleep"]
            /\ UNCHANGED outstanding
       ELSE /\ outstanding' = outstanding + 1
            /\ lpc' = [lpc EXCEPT ![p] = "inop"]
    /\ UNCHANGED <<dhead, dlog, dhome, chome, lh_n, lh_block, committing, ltail,
                   lzero, boot, rtail, lpanic, ncrash, txn, crashTxn>>

\* an absorption loop that never finds the block
absorb_never(b) == lh_n

\* The slot log_write's absorption loop stops at: the first i < n with
\* block[i] = b, or n when there is none.
absorb_slot(b) ==
    IF \E i \in 0..(lh_n - 1) : lh_block[i + 1] = b
    THEN CHOOSE i \in 0..(lh_n - 1) :
            /\ lh_block[i + 1] = b
            /\ \A j \in 0..(i - 1) : lh_block[j + 1] /= b
    ELSE lh_n

\* A process inside an operation modifies the buffer of home block b
\* (bread, change data) and calls log_write on it.
log_write(p, b, v) ==
    /\ LogUp
    /\ lpc[p] = "inop"
    /\ v /= bread_home(b)
    /\ IF lh_n >= LOGSIZE \/ lh_n >= log_size - 1
       THEN /\ lpanic' = "too big a transaction"
            /\ UNCHANGED <<chome, lh_n, lh_block>>
       ELSE IF outstanding < 1
       THEN /\ lpanic' = "log_write outside of trans"
            /\ UNCHANGED <<chome, lh_n, lh_block>>
       ELSE /\ chome' = [chome EXCEPT ![b] = v]
            /\ LET i == absorb_slot(b) IN
                 IF i = lh_n
                 THEN /\ lh_block' = [lh_block EXCEPT ![i + 1] = b]
                      /\ lh_n' = lh_n + 1
                 ELSE UNCHANGED <<lh_block, lh_n>>
            /\ UNCHANGED lpanic
    /\ UNCHANGED <<dhead, dlog, dhome, outstanding, committing, lpc, ltail, lzero,
                   boot, rtail, nops, ncrash, txn, crashTxn>>

\* The blocks and buffer contents of the transaction a commit starts with.
StagedTxn ==
    LET blks == {lh_block[i + 1] : i \in 0..(lh_n - 1)} IN
    [active |-> TRUE,
     pre |-> dhome,
     blocks |-> blks,
     new |-> [b \in HomeBlocks |-> IF b \in blks THEN bread_home(b) ELSE dhome[b]]]

\* end_op, first statement: the unlocked test of log.committing.
end_op_check(p) ==
    /\ LogUp
    /\ lpc[p] = "inop"
    /\ IF committing /= 0
       THEN lpanic' = "log.committing" /\ UNCHANGED lpc
       ELSE lpc' = [lpc EXCEPT ![p] = "end_locked"] /\ UNCHANGED lpanic
    /\ UNCHANGED <<dhead, dlog, dhome, chome, lh_n, lh_block, outstanding,
                   committing, ltail, lzero, boot, rtail, nops, ncrash, txn, crashTxn>>

\* end_op, the section under log.lock: decrement, then set committing or wake.
end_op_locked(p) ==
    /\ LogUp
    /\ lpc[p] = "end_locked"
    /\ outstanding' = outstanding - 1
    /\ lzero' = [lzero EXCEPT ![p] = (outstanding' = 0)]
    /\ IF outstanding' = 0
       THEN /\ committing' = 1
            /\ lpc' = [lpc EXCEPT ![p] = "end_test"]
            /\ txn' = IF lh_n > 0 THEN StagedTxn ELSE txn
       ELSE /\ lpc' = [wakeup_log(lpc) EXCEPT ![p] = "end_test"]
            /\ UNCHANGED <<committing, txn>>
    /\ UNCHANGED <<dhead, dlog, dhome, chome, lh_n, lh_block, ltail, boot, rtail,
                   lpanic, nops, ncrash, crashTxn>>

\* end_op after release(&log.lock): the test "if (log.committing)" reads the
\* shared flag, not a local copy of this call's decision.
end_op_test(p) ==
    /\ LogUp
    /\ lpc[p] = "end_test"
    /\ lpc' = [lpc EXCEPT ![p] = IF committing /= 0 THEN "commit" ELSE "idle"]
    /\ lzero' = IF committing /= 0 THEN lzero ELSE [lzero EXCEPT ![p] = FALSE]
    /\ UNCHANGED <<dhead, dlog, dhome, chome, lh_n, lh_block, outstanding,
                   committing, ltail, boot, rtail, lpanic, nops, ncrash,
                   txn, crashTxn>>

\* commit: the test log.lh.n > 0
commit(p) ==
    /\ LogUp
    /\ lpc[p] = "commit"
    /\ lpc' = [lpc EXCEPT ![p] = IF lh_n > 0 THEN "write_log" ELSE "end_clear"]
    /\ ltail' = [ltail EXCEPT ![p] = 0]
    /\ UNCHANGED <<dhead, dlog, dhome, chome, lh_n, lh_block, outstanding,
                   committing, lzero, boot, rtail, lpanic, nops, ncrash, txn, crashTxn>>

\* write_log: one iteration of the loop (one bwrite of a log block), or its exit.
write_log(p) ==
    /\ LogUp
    /\ lpc[p] = "write_log"
    /\ IF ltail[p] < lh_n
       THEN /\ dlog' = [dlog EXCEPT ![ltail[p] + 1] =
                           IF lh_block[ltail[p] + 1] \in HomeBlocks
                           THEN bread_home(lh_block[ltail[p] + 1]) ELSE 0]
            /\ ltail' = [ltail EXCEPT ![p] = ltail[p] + 1]
            /\ UNCHANGED lpc
       ELSE /\ lpc' = [lpc EXCEPT ![p] = "write_head"]
            /\ UNCHANGED <<dlog, ltail>>
    /\ UNCHANGED <<dhead, dhome, chome, lh_n, lh_block, outstanding, committing,
                   lzero, boot, rtail, lpanic, nops, ncrash, txn, crashTxn>>

\* The header block write_head hands to bwrite: the block as read from the
\* device with block[i] replaced by log.lh.block[i] for i < log.lh.n.
head_image(hb) ==
    [n |-> hb.n,
     block |-> [i \in LogSlots |-> IF i - 1 < lh_n THEN lh_block[i] ELSE hb.block[i]]]

\* write_head as called by commit: first call ("write_head") is the commit
\* point, the second ("erase_head") erases the transaction.
write_head(p) ==
    /\ LogUp
    /\ lpc[p] \in {"write_head", "erase_head"}
    /\ dhead' = head_image(dhead)
    /\ lpc' = [lpc EXCEPT ![p] = IF lpc[p] = "write_head" THEN "install" ELSE "end_clear"]
    /\ ltail' = [ltail EXCEPT ![p] = 0]
    /\ UNCHANGED <<dlog, dhome, chome, lh_n, lh_block, outstanding, committing,
                   lzero, boot, rtail, lpanic, nops, ncrash, txn, crashTxn>>

\* a copy that merges the log block into the home block's old data
install_data_merged(lbuf, dbuf) == (lbuf + dbuf) % (MaxVal + 1)

\* install_trans: memmove(dbuf->data, lbuf->data, BSIZE), the data the home
\* block's buffer holds when it is written
install_data(lbuf, dbuf) == lbuf

\* install_trans as called by commit: one iteration (one bwrite of a home
\* block), or the loop's exit followed by log.lh.n = 0.
install_trans(p) ==
    /\ LogUp
    /\ lpc[p] = "install"
    /\ IF ltail[p] < lh_n
       THEN /\ IF lh_block[ltail[p] + 1] \in HomeBlocks
               THEN LET d == install_data(dlog[ltail[p] + 1],
                                          bread_home(lh_block[ltail[p] + 1])) IN
                    /\ dhome' = [dhome EXCEPT ![lh_block[ltail[p] + 1]] = d]
                    /\ chome' = [chome EXCEPT ![lh_block[ltail[p] + 1]] = d]
               ELSE UNCHANGED <<dhome, chome>>
            /\ ltail' = [ltail EXCEPT ![p] = ltail[p] + 1]
            /\ UNCHANGED <<lpc, lh_n>>
       ELSE /\ lh_n' = 0
            /\ lpc' = [lpc EXCEPT ![p] = "erase_head"]
            /\ ltail' = [ltail EXCEPT ![p] = 0]
            /\ UNCHANGED <<dhome, chome>>
    /\ UNCHANGED <<dhead, dlog, lh_block, outstanding, committing, lzero, boot,
                   rtail, lpanic, nops, ncrash, txn, crashTxn>>

\* end_op, after commit returns: clear committing and wake, under log.lock.
end_op_clear(p) ==
    /\ LogUp
    /\ lpc[p] = "end_clear"
    /\ committing' = 0
    /\ lpc' = [wakeup_log(lpc) EXCEPT ![p] = "idle"]
    /\ txn' = NoTxn
    /\ lzero' = [lzero EXCEPT ![p] = FALSE]
    /\ UNCHANGED <<dhead, dlog, dhome, chome, lh_n, lh_block, outstanding, ltail,
                   boot, rtail, lpanic, nops, ncrash, crashTxn>>

\* recover_from_log at boot (initlog): read_head, install_trans one block
\* per step, then log.lh.n = 0 and write_head.  The cache is empty at boot,
\* so every bread returns the device's contents.
recover_from_log ==
    /\ lpanic = NoPanic
    /\ boot \in {"read_head", "install", "erase_head"}
    /\ IF boot = "read_head"
       THEN /\ lh_n' = dhead.n
            /\ lh_block' = [i \in LogSlots |->
                              IF i - 1 < dhead.n THEN dhead.block[i] ELSE lh_block[i]]
            /\ boot' = "install"
            /\ rtail' = 0
            /\ UNCHANGED <<dhead, dhome, chome>>
       ELSE IF boot = "install"
       THEN IF rtail < lh_n
            THEN /\ IF lh_block[rtail + 1] \in HomeBlocks
                    THEN LET d == install_data(dlog[rtail + 1],
                                               bread_home(lh_block[rtail + 1])) IN
                         /\ dhome' = [dhome EXCEPT ![lh_block[rtail + 1]] = d]
                         /\ chome' = [chome EXCEPT ![lh_block[rtail + 1]] = d]
                    ELSE UNCHANGED <<dhome, chome>>
                 /\ rtail' = rtail + 1
                 /\ UNCHANGED <<dhead, lh_n, lh_block, boot>>
            ELSE /\ lh_n' = 0
                 /\ boot' = "erase_head"
                 /\ UNCHANGED <<dhead, dhome, chome, lh_block, rtail>>
       ELSE /\ dhead' = head_image(dhead)
            /\ boot' = "recovered"
            /\ UNCHANGED <<dhome, chome, lh_n, lh_block, rtail>>
    /\ UNCHANGED <<dlog, outstanding, committing, lpc, ltail, lzero, lpanic, nops,
                   ncrash, txn, crashTxn>>

\* initlog returns; file-system operations may start.
initlog_return ==
    /\ boot = "recovered"
    /\ boot' = "run"
    /\ crashTxn' = NoTxn
    /\ UNCHANGED <<dhead, dlog, dhome, chome, lh_n, lh_block, outstanding,
                   committing, lpc, ltail, lzero, rtail, lpanic, nops, ncrash, txn>>

\* A crash-stop between two disk writes, followed by a reboot: memory is
\* lost, the disk is kept.
Crash ==
    /\ ncrash < MaxCrashes
    /\ boot \in {"run", "install", "erase_head"}
    /\ ncrash' = ncrash + 1
    /\ crashTxn' = IF boot = "run" THEN txn ELSE crashTxn
    /\ txn' = NoTxn
    /\ chome' = [b \in HomeBlocks |-> NotCached]
    /\ lh_n' = 0
    /\ lh_block' = [i \in LogSlots |-> 0]
    /\ outstanding' = 0
    /\ committing' = 0
    /\ lpc' = [p \in LogProcs |-> "idle"]
    /\ ltail' = [p \in LogProcs |-> 0]
    /\ lzero' = [p \in LogProcs |-> FALSE]
    /\ boot' = "read_head"
    /\ rtail' = 0
    /\ lpanic' = NoPanic
    /\ UNCHANGED <<dhead, dlog, dhome, nops>>

\* ---------------------------------------------------------------------------
\* Recovery at mount, from any disk: the header, the log blocks and the
\* home blocks found on the device are inputs of initlog.
\* ---------------------------------------------------------------------------
MaxLogged == 2     \* header entries and log blocks the device may hold at mount

VARIABLES
    rdisk0,     \* history: the disk at the first mount, [head, log, home]
    rsnap       \* history: the disk when the first recovery returned

recVars == <<rdisk0, rsnap>>

NoSnap == [taken |-> FALSE]
Disk == [head |-> dhead, log |-> dlog, home |-> dhome]

\* outside recovery runs the history variables are not used
RecInit == rdisk0 = NoSnap /\ rsnap = NoSnap

\* the kernel's memory as in LogInit, over any disk within the bounds
RecoverInit ==
    /\ \E n \in 0..MaxLogged :
       \E blk \in [1..MaxLogged -> HomeBlocks] :
          dhead = [n |-> n,
                   block |-> [i \in LogSlots |-> IF i <= MaxLogged THEN blk[i] ELSE 0]]
    /\ \E dat \in [1..MaxLogged -> Values] :
          dlog = [i \in LogSlots |-> IF i <= MaxLogged THEN dat[i] ELSE 0]
    /\ dhome \in [HomeBlocks -> Values]
    /\ chome = [b \in HomeBlocks |-> NotCached]
    /\ lh_n = 0
    /\ lh_block = [i \in LogSlots |-> 0]
    /\ outstanding = 0
    /\ committing = 0
    /\ lpc = [p \in LogProcs |-> "idle"]
    /\ ltail = [p \in LogProcs |-> 0]
    /\ lzero = [p \in LogProcs |-> FALSE]
    /\ boot = "read_head"
    /\ rtail = 0
    /\ lpanic = NoPanic
    /\ nops = 0
    /\ ncrash = 0
    /\ txn = NoTxn
    /\ crashTxn = NoTxn
    /\ rdisk0 = [taken |-> TRUE, disk |-> Disk]
    /\ rsnap = NoSnap

\* recover_from_log is run a second time in a row: the disk the first run
\* left is recorded and initlog starts again at read_head.
initlog_again ==
    /\ boot = "recovered"
    /\ ~rsnap.taken
    /\ rsnap' = [taken |-> TRUE, disk |-> Disk]
    /\ boot' = "read_head"
    /\ rtail' = 0
    /\ UNCHANGED <<dhead, dlog, dhome, chome, lh_n, lh_block, outstanding,
                   committing, lpc, ltail, lzero, lpanic, nops, ncrash, txn,
                   crashTxn, rdisk0>>


(***************************************************************************)
(* --------- The log's space accounting (log.c): how many blocks --------- *)
(* --------- the staged header holds against what begin_op admits -------- *)
(***************************************************************************)
NSpaceProcs == 3

VARIABLES
    ls_n,            \* log.lh.n
    ls_outstanding,  \* log.outstanding
    ls_committing,   \* log.committing
    ls_pc,           \* per process: position in begin_op / end_op
    ls_wrote,        \* per process: distinct blocks logged by its open operation
    ls_panic

spaceVars == <<ls_n, ls_outstanding, ls_committing, ls_pc, ls_wrote, ls_panic>>

SpaceProcs == 1..NSpaceProcs

SpaceInit ==
    /\ ls_n = 0
    /\ ls_outstanding = 0
    /\ ls_committing = 0
    /\ ls_pc = [p \in SpaceProcs |-> "idle"]
    /\ ls_wrote = [p \in SpaceProcs |-> 0]
    /\ ls_panic = NoPanic

SpaceUp == ls_panic = NoPanic

\* wakeup(&log): sleepers in begin_op retry their loop
space_wakeup(pcs) ==
    [q \in SpaceProcs |-> IF pcs[q] = "begin_sleep" THEN "begin_retry" ELSE pcs[q]]

\* begin_op: one pass of its loop under log.lock
space_begin_op(p) ==
    /\ SpaceUp
    /\ ls_pc[p] \in {"idle", "begin_retry"}
    /\ IF ls_committing /= 0
       THEN /\ ls_pc' = [ls_pc EXCEPT ![p] = "begin_sleep"]
            /\ UNCHANGED <<ls_outstanding, ls_wrote>>
       ELSE IF ls_n + (ls_outstanding + 1) * MAXOPBLOCKS > LOGSIZE
       THEN /\ ls_pc' = [ls_pc EXCEPT ![p] = "begin_sleep"]
            /\ UNCHANGED <<ls_outstanding, ls_wrote>>
       ELSE /\ ls_outstanding' = ls_outstanding + 1
            /\ ls_pc' = [ls_pc EXCEPT ![p] = "inop"]
            /\ UNCHANGED ls_wrote
    /\ UNCHANGED <<ls_n, ls_committing, ls_panic>>

\* log_write of a block: fresh when its number is not yet in the header (the
\* absorption loop runs to log.lh.n), not fresh when an earlier log_write of
\* the transaction put it there. An operation writes at most MAXOPBLOCKS
\* distinct blocks.
space_log_write(p, fresh) ==
    /\ SpaceUp
    /\ ls_pc[p] = "inop"
    /\ IF fresh THEN ls_wrote[p] < MAXOPBLOCKS ELSE ls_n > 0
    /\ IF ls_n >= LOGSIZE \/ ls_n >= log_size - 1
       THEN ls_panic' = "too big a transaction" /\ UNCHANGED <<ls_n, ls_wrote>>
       ELSE IF ls_outstanding < 1
       THEN ls_panic' = "log_write outside of trans" /\ UNCHANGED <<ls_n, ls_wrote>>
       ELSE /\ ls_n' = IF fresh THEN ls_n + 1 ELSE ls_n
            /\ ls_wrote' = IF fresh THEN [ls_wrote EXCEPT ![p] = @ + 1] ELSE ls_wrote
            /\ UNCHANGED ls_panic
    /\ UNCHANGED <<ls_outstanding, ls_committing, ls_pc>>

\* end_op before acquire(&log.lock): the unlocked test of log.committing
space_end_op_check(p) ==
    /\ SpaceUp
    /\ ls_pc[p] = "inop"
    /\ IF ls_committing /= 0
       THEN ls_panic' = "log.committing" /\ UNCHANGED ls_pc
       ELSE ls_pc' = [ls_pc EXCEPT ![p] = "end_locked"] /\ UNCHANGED ls_panic
    /\ ls_wrote' = [ls_wrote EXCEPT ![p] = 0]
    /\ UNCHANGED <<ls_n, ls_outstanding, ls_committing>>

\* end_op under log.lock: decrement, then set committing or wake
space_end_op_locked(p) ==
    /\ SpaceUp
    /\ ls_pc[p] = "end_locked"
    /\ ls_outstanding' = ls_outstanding - 1
    /\ IF ls_outstanding' = 0
       THEN /\ ls_committing' = 1
            /\ ls_pc' = [ls_pc EXCEPT ![p] = "end_test"]
       ELSE /\ ls_pc' = [space_wakeup(ls_pc) EXCEPT ![p] = "end_test"]
            /\ UNCHANGED ls_committing
    /\ UNCHANGED <<ls_n, ls_wrote, ls_panic>>

\* end_op after release(&log.lock): "if (log.committing)", then commit(),
\* which ends with log.lh.n = 0
space_commit(p) ==
    /\ SpaceUp
    /\ ls_pc[p] = "end_test"
    /\ IF ls_committing /= 0
       THEN /\ ls_n' = 0
            /\ ls_pc' = [ls_pc EXCEPT ![p] = "end_clear"]
       ELSE /\ ls_pc' = [ls_pc EXCEPT ![p] = "idle"]
            /\ UNCHANGED ls_n
    /\ UNCHANGED <<ls_outstanding, ls_committing, ls_wrote, ls_panic>>

\* end_op after commit(): committing = 0 and wakeup(&log) under log.lock
space_end_op_clear(p) ==
    /\ SpaceUp
    /\ ls_pc[p] = "end_clear"
    /\ ls_committing' = 0
    /\ ls_pc' = [space_wakeup(ls_pc) EXCEPT ![p] = "idle"]
    /\ UNCHANGED <<ls_n, ls_outstanding, ls_wrote, ls_panic>>

(***************************************************************************)
(* --------- The buffer cache under the log (bio.c, log.c): which -------- *)
(* --------- buffers bget may take while transactions are staged --------- *)
(***************************************************************************)
NLcProcs == 2
NLcBufs == 3
NLcBlocks == 2
MaxLcOps == 2

VARIABLES
    lc_buf,         \* per buffer: blockno, B_VALID, B_DIRTY, refcnt, sleeplock owner
    lc_list,        \* the buffers in list order from bcache.head
    lc_hold,        \* per process: the buffers it got from bread, oldest first
    lc_n,           \* log.lh.n
    lc_block,       \* log.lh.block
    lc_outstanding, \* log.outstanding
    lc_committing,  \* log.committing
    lc_pc,          \* per process: position in its system call
    lc_tail,        \* per process: the loop variable of write_log / install_trans
    lc_logged,      \* per buffer: "pending" from log_write until a bwrite of it
    lc_taken,       \* per buffer: what bget found when it last repurposed it
    lc_ops,         \* system calls started
    lc_panic

lcVars == <<lc_buf, lc_list, lc_hold, lc_n, lc_block, lc_outstanding, lc_committing,
            lc_pc, lc_tail, lc_logged, lc_taken, lc_ops, lc_panic>>

LcProcs == 1..NLcProcs
LcBufs == 1..NLcBufs
LcBlocks == 1..NLcBlocks

\* log.start, after the home blocks; log block i is at log.start + i + 1
LcLogStart == NLcBlocks + 1

NotTaken == [taken |-> FALSE]

\* binit: NBUF unused buffers, the last of the array at bcache.head
LcInit ==
    /\ lc_buf = [b \in LcBufs |-> [blockno |-> 0, valid |-> FALSE, dirty |-> FALSE,
                                   refcnt |-> 0, owner |-> 0]]
    /\ lc_list = [k \in 1..NLcBufs |-> NLcBufs + 1 - k]
    /\ lc_hold = [p \in LcProcs |-> <<>>]
    /\ lc_n = 0
    /\ lc_block = [i \in 1..LOGSIZE |-> 0]
    /\ lc_outstanding = 0
    /\ lc_committing = 0
    /\ lc_pc = [p \in LcProcs |-> "idle"]
    /\ lc_tail = [p \in LcProcs |-> 0]
    /\ lc_logged = [b \in LcBufs |-> "none"]
    /\ lc_taken = [b \in LcBufs |-> NotTaken]
    /\ lc_ops = 0
    /\ lc_panic = NoPanic

LcUp == lc_panic = NoPanic

\* the part of the state the buffer functions change
LcCache == [buf |-> lc_buf, list |-> lc_list, hold |-> lc_hold,
            logged |-> lc_logged, taken |-> lc_taken, panic |-> lc_panic]

lc_set(S) ==
    /\ lc_buf' = S.buf
    /\ lc_list' = S.list
    /\ lc_hold' = S.hold
    /\ lc_logged' = S.logged
    /\ lc_taken' = S.taken
    /\ lc_panic' = S.panic

\* the first buffer of the list that is in the set B; 0 if none
lc_first(S, B) ==
    IF \E k \in 1..NLcBufs : S.list[k] \in B
    THEN S.list[CHOOSE k \in 1..NLcBufs :
            /\ S.list[k] \in B
            /\ \A j \in 1..(k - 1) : S.list[j] \notin B]
    ELSE 0

\* bget's second pass with no B_DIRTY test
lc_recycle_dirty(S) == lc_first(S, {b \in LcBufs : S.buf[b].refcnt = 0})

\* bget's second pass: the first buffer with refcnt == 0 and B_DIRTY clear
lc_recycle(S) ==
    lc_first(S, {b \in LcBufs : S.buf[b].refcnt = 0 /\ ~S.buf[b].dirty})

\* bget(dev, blockno) by process p.  A hit on a buffer whose sleeplock is
\* held sleeps in acquiresleep with bcache.lock held: sched panics.
lc_bget(S, p, blockno) ==
    LET hit == lc_first(S, {b \in LcBufs : S.buf[b].blockno = blockno})
        free == lc_recycle(S) IN
    IF hit /= 0
    THEN IF S.buf[hit].owner /= 0
         THEN [S EXCEPT !.buf[hit].refcnt = @ + 1, !.panic = "sched locks"]
         ELSE [S EXCEPT !.buf[hit].refcnt = @ + 1, !.buf[hit].owner = p,
                        !.hold[p] = Append(@, hit)]
    ELSE IF free /= 0
    THEN [S EXCEPT !.taken[free] = [taken |-> TRUE, refcnt |-> S.buf[free].refcnt,
                                    dirty |-> S.buf[free].dirty,
                                    logged |-> S.logged[free]],
                   !.logged[free] = "none",
                   !.buf[free] = [blockno |-> blockno, valid |-> FALSE,
                                  dirty |-> FALSE, refcnt |-> 1, owner |-> p],
                   !.hold[p] = Append(@, free)]
    ELSE [S EXCEPT !.panic = "bget: no buffers"]

\* iderw(b) with ideintr's completion: B_VALID set, B_DIRTY cleared
lc_iderw(S, b) == [S EXCEPT !.buf[b].valid = TRUE, !.buf[b].dirty = FALSE]

\* bread: bget, then iderw when the buffer is not B_VALID
lc_bread(S, p, blockno) ==
    LET G == lc_bget(S, p, blockno) IN
    IF G.panic /= NoPanic THEN G
    ELSE LET b == G.hold[p][Len(G.hold[p])] IN
         IF G.buf[b].valid THEN G ELSE lc_iderw(G, b)

\* bwrite(b): B_DIRTY set, iderw writes the buffer to its block
lc_bwrite(S, b) ==
    [lc_iderw(S, b) EXCEPT !.logged[b] = IF @ = "pending" THEN "written" ELSE @]

\* brelse(b) by process p: releasesleep, refcnt--, an unused buffer that is
\* not at bcache.head moves there
lc_brelse(S, p, b) ==
    [S EXCEPT !.buf[b].owner = 0,
              !.buf[b].refcnt = @ - 1,
              !.list = IF S.buf[b].refcnt = 1 /\ S.list[1] /= b
                       THEN <<b>> \o SelectSeq(S.list, LAMBDA x : x /= b)
                       ELSE S.list,
              !.hold[p] = SelectSeq(@, LAMBDA x : x /= b)]

lc_goto(p, l) == lc_pc' = [lc_pc EXCEPT ![p] = l]

lc_wakeup(pcs) ==
    [q \in LcProcs |-> IF pcs[q] = "begin_sleep" THEN "begin_retry" ELSE pcs[q]]

\* a system call that reads a block outside any transaction
lc_read(p, blockno) ==
    /\ LcUp
    /\ \/ /\ lc_pc[p] = "idle"
          /\ lc_ops < MaxLcOps
          /\ lc_ops' = lc_ops + 1
          /\ lc_set(lc_bread(LcCache, p, blockno))
          /\ lc_goto(p, "read_brelse")
       \/ /\ lc_pc[p] = "read_brelse"
          /\ blockno = lc_buf[lc_hold[p][1]].blockno
          /\ lc_set(lc_brelse(LcCache, p, lc_hold[p][1]))
          /\ lc_goto(p, "idle")
          /\ UNCHANGED lc_ops
    /\ UNCHANGED <<lc_n, lc_block, lc_outstanding, lc_committing, lc_tail>>

\* begin_op: one pass of its loop under log.lock
lc_begin_op(p) ==
    /\ LcUp
    /\ \/ lc_pc[p] = "idle" /\ lc_ops < MaxLcOps /\ lc_ops' = lc_ops + 1
       \/ lc_pc[p] = "begin_retry" /\ UNCHANGED lc_ops
    /\ IF lc_committing /= 0 \/ lc_n + (lc_outstanding + 1) * MAXOPBLOCKS > LOGSIZE
       THEN lc_goto(p, "begin_sleep") /\ UNCHANGED lc_outstanding
       ELSE lc_goto(p, "inop") /\ lc_outstanding' = lc_outstanding + 1
    /\ UNCHANGED <<lc_buf, lc_list, lc_hold, lc_n, lc_block, lc_committing, lc_tail,
                   lc_logged, lc_taken, lc_panic>>

\* inside an operation: bread a home block ("inop"), log_write the buffer
\* ("op_log_write") and brelse it ("op_brelse")
lc_op_write(p, blockno) ==
    /\ LcUp
    /\ \/ /\ lc_pc[p] = "inop"
          /\ lc_set(lc_bread(LcCache, p, blockno))
          /\ lc_goto(p, "op_log_write")
          /\ UNCHANGED <<lc_n, lc_block>>
       \/ /\ lc_pc[p] = "op_log_write"
          /\ blockno = lc_buf[lc_hold[p][1]].blockno
          /\ IF lc_n >= LOGSIZE \/ lc_n >= log_size - 1
             THEN /\ lc_set([LcCache EXCEPT !.panic = "too big a transaction"])
                  /\ UNCHANGED <<lc_n, lc_block, lc_pc>>
             ELSE IF lc_outstanding < 1
             THEN /\ lc_set([LcCache EXCEPT !.panic = "log_write outside of trans"])
                  /\ UNCHANGED <<lc_n, lc_block, lc_pc>>
             ELSE /\ IF \E i \in 1..lc_n : lc_block[i] = blockno
                     THEN UNCHANGED <<lc_n, lc_block>>
                     ELSE /\ lc_block' = [lc_block EXCEPT ![lc_n + 1] = blockno]
                          /\ lc_n' = lc_n + 1
                  /\ lc_set([LcCache EXCEPT !.buf[lc_hold[p][1]].dirty = TRUE,
                                            !.logged[lc_hold[p][1]] = "pending"])
                  /\ lc_goto(p, "op_brelse")
       \/ /\ lc_pc[p] = "op_brelse"
          /\ blockno = lc_buf[lc_hold[p][1]].blockno
          /\ lc_set(lc_brelse(LcCache, p, lc_hold[p][1]))
          /\ lc_goto(p, "inop")
          /\ UNCHANGED <<lc_n, lc_block>>
    /\ UNCHANGED <<lc_outstanding, lc_committing, lc_tail, lc_ops>>

\* end_op: the unlocked test of log.committing ("inop"), the section under
\* log.lock ("end_locked"), the test after the release ("end_test") and,
\* after commit(), the clearing of log.committing ("end_clear")
lc_end_op(p) ==
    /\ LcUp
    /\ \/ /\ lc_pc[p] = "inop"
          /\ IF lc_committing /= 0
             THEN lc_panic' = "log.committing" /\ UNCHANGED lc_pc
             ELSE lc_goto(p, "end_locked") /\ UNCHANGED lc_panic
          /\ UNCHANGED <<lc_outstanding, lc_committing, lc_tail>>
       \/ /\ lc_pc[p] = "end_locked"
          /\ lc_outstanding' = lc_outstanding - 1
          /\ IF lc_outstanding' = 0
             THEN lc_committing' = 1 /\ lc_goto(p, "end_test")
             ELSE /\ lc_pc' = [lc_wakeup(lc_pc) EXCEPT ![p] = "end_test"]
                  /\ UNCHANGED lc_committing
          /\ UNCHANGED <<lc_tail, lc_panic>>
       \/ /\ lc_pc[p] = "end_test"
          /\ IF lc_committing /= 0
             THEN IF lc_n > 0
                  THEN lc_goto(p, "write_log") ELSE lc_goto(p, "end_clear")
             ELSE lc_goto(p, "idle")
          /\ lc_tail' = [lc_tail EXCEPT ![p] = 0]
          /\ UNCHANGED <<lc_outstanding, lc_committing, lc_panic>>
       \/ /\ lc_pc[p] = "end_clear"
          /\ lc_committing' = 0
          /\ lc_pc' = [lc_wakeup(lc_pc) EXCEPT ![p] = "idle"]
          /\ UNCHANGED <<lc_outstanding, lc_tail, lc_panic>>
    /\ UNCHANGED <<lc_buf, lc_list, lc_hold, lc_n, lc_block, lc_logged, lc_taken, lc_ops>>

\* write_log: per logged block bread the log block ("write_log") and the
\* home block ("wl_from"), bwrite the log block ("wl_bwrite"), brelse both
lc_write_log(p) ==
    /\ LcUp
    /\ \/ /\ lc_pc[p] = "write_log"
          /\ IF lc_tail[p] < lc_n
             THEN /\ lc_set(lc_bread(LcCache, p, LcLogStart + lc_tail[p] + 1))
                  /\ lc_goto(p, "wl_from")
                  /\ UNCHANGED lc_tail
             ELSE /\ lc_goto(p, "write_head")
                  /\ lc_tail' = [lc_tail EXCEPT ![p] = 0]
                  /\ lc_set(LcCache)
       \/ /\ lc_pc[p] = "wl_from"
          /\ lc_set(lc_bread(LcCache, p, lc_block[lc_tail[p] + 1]))
          /\ lc_goto(p, "wl_bwrite")
          /\ UNCHANGED lc_tail
       \/ /\ lc_pc[p] = "wl_bwrite"
          /\ lc_set(lc_bwrite(LcCache, lc_hold[p][1]))
          /\ lc_goto(p, "wl_brelse_from")
          /\ UNCHANGED lc_tail
       \/ /\ lc_pc[p] = "wl_brelse_from"
          /\ lc_set(lc_brelse(LcCache, p, lc_hold[p][2]))
          /\ lc_goto(p, "wl_brelse_to")
          /\ UNCHANGED lc_tail
       \/ /\ lc_pc[p] = "wl_brelse_to"
          /\ lc_set(lc_brelse(LcCache, p, lc_hold[p][1]))
          /\ lc_goto(p, "write_log")
          /\ lc_tail' = [lc_tail EXCEPT ![p] = @ + 1]
    /\ UNCHANGED <<lc_n, lc_block, lc_outstanding, lc_committing, lc_ops>>

\* write_head: bread the header block, bwrite it, brelse it; the first call
\* of commit() is followed by install_trans, the second by the end of commit()
lc_write_head(p) ==
    /\ LcUp
    /\ \/ /\ lc_pc[p] \in {"write_head", "write_head_2"}
          /\ lc_set(lc_bread(LcCache, p, LcLogStart))
          /\ lc_goto(p, IF lc_pc[p] = "write_head" THEN "wh_bwrite" ELSE "wh_bwrite_2")
       \/ /\ lc_pc[p] \in {"wh_bwrite", "wh_bwrite_2"}
          /\ lc_set(lc_bwrite(LcCache, lc_hold[p][1]))
          /\ lc_goto(p, IF lc_pc[p] = "wh_bwrite" THEN "wh_brelse" ELSE "wh_brelse_2")
       \/ /\ lc_pc[p] \in {"wh_brelse", "wh_brelse_2"}
          /\ lc_set(lc_brelse(LcCache, p, lc_hold[p][1]))
          /\ lc_goto(p, IF lc_pc[p] = "wh_brelse" THEN "install_trans" ELSE "end_clear")
    /\ UNCHANGED <<lc_n, lc_block, lc_outstanding, lc_committing, lc_tail, lc_ops>>

\* install_trans: per logged block bread the log block ("install_trans") and
\* the home block ("it_dbuf"), bwrite the home block ("it_bwrite"), brelse
\* both; after the loop commit() sets log.lh.n = 0
lc_install_trans(p) ==
    /\ LcUp
    /\ \/ /\ lc_pc[p] = "install_trans"
          /\ IF lc_tail[p] < lc_n
             THEN /\ lc_set(lc_bread(LcCache, p, LcLogStart + lc_tail[p] + 1))
                  /\ lc_goto(p, "it_dbuf")
                  /\ UNCHANGED <<lc_tail, lc_n, lc_block>>
             ELSE /\ lc_n' = 0
                  /\ UNCHANGED lc_block
                  /\ lc_goto(p, "write_head_2")
                  /\ lc_tail' = [lc_tail EXCEPT ![p] = 0]
                  /\ lc_set(LcCache)
       \/ /\ lc_pc[p] = "it_dbuf"
          /\ lc_set(lc_bread(LcCache, p, lc_block[lc_tail[p] + 1]))
          /\ lc_goto(p, "it_bwrite")
          /\ UNCHANGED <<lc_tail, lc_n, lc_block>>
       \/ /\ lc_pc[p] = "it_bwrite"
          /\ lc_set(lc_bwrite(LcCache, lc_hold[p][2]))
          /\ lc_goto(p, "it_brelse_lbuf")
          /\ UNCHANGED <<lc_tail, lc_n, lc_block>>
       \/ /\ lc_pc[p] = "it_brelse_lbuf"
          /\ lc_set(lc_brelse(LcCache, p, lc_hold[p][1]))
          /\ lc_goto(p, "it_brelse_dbuf")
          /\ UNCHANGED <<lc_tail, lc_n, lc_block>>
       \/ /\ lc_pc[p] = "it_brelse_dbuf"
          /\ lc_set(lc_brelse(LcCache, p, lc_hold[p][1]))
          /\ lc_goto(p, "install_trans")
          /\ lc_tail' = [lc_tail EXCEPT ![p] = @ + 1]
          /\ UNCHANGED <<lc_n, lc_block>>
    /\ UNCHANGED <<lc_outstanding, lc_committing, lc_ops>>

(***************************************************************************)
(* --------- The inode cache (fs.c) under open, create, unlink ----------- *)
(* --------- and close (sysfile.c)                              ---------- *)
(***************************************************************************)
NIProcs == 2
NISlots == 2
NInums == 2
MaxIOps == 4

T_FILE == 2

VARIABLES
    icache,     \* per slot: inum, ref, valid, type, nlink, sleeplock owner
    dinode,     \* per inum, on disk: type, nlink, whether data blocks are allocated
    dirent,     \* per inum: the root directory has an entry for it
    dplock,     \* owner of the root directory's sleeplock, 0 when free
    ipc,        \* per process: position in its system call
    iip,        \* per process: the slot of the ip its call works on
    iofile,     \* per process: the slot of the inode of its open file, 0 if none
    ifreed,     \* what iput found when it last truncated and freed an inode
    iops,       \* system calls started
    ipanic

inoVars == <<icache, dinode, dirent, dplock, ipc, iip, iofile, ifreed, iops, ipanic>>

IProcs == 1..NIProcs
ISlots == 1..NISlots
Inums == 1..NInums

NotFreed == [taken |-> FALSE]

\* iinit on a disk with one file, inum 1, in the root directory
InoInit ==
    /\ icache = [s \in ISlots |-> [inum |-> 0, ref |-> 0, valid |-> FALSE,
                                   type |-> 0, nlink |-> 0, lock |-> 0]]
    /\ dinode = [i \in Inums |-> IF i = 1
                                 THEN [type |-> T_FILE, nlink |-> 1, blocks |-> TRUE]
                                 ELSE [type |-> 0, nlink |-> 0, blocks |-> FALSE]]
    /\ dirent = [i \in Inums |-> i = 1]
    /\ dplock = 0
    /\ ipc = [p \in IProcs |-> "idle"]
    /\ iip = [p \in IProcs |-> 0]
    /\ iofile = [p \in IProcs |-> 0]
    /\ ifreed = NotFreed
    /\ iops = 0
    /\ ipanic = NoPanic

IUp == ipanic = NoPanic

\* the smallest element of a non-empty set of numbers
ifirst(S) == CHOOSE s \in S : \A t \in S : s <= t

\* a scan that finds no slot for the inode
iget_hit_none(inum) == {}

\* iget's scan: the slots with ref > 0 that hold (dev, inum)
iget_hit(inum) == {s \in ISlots : icache[s].ref > 0 /\ icache[s].inum = inum}

\* iget(dev, inum) under icache.lock: the slot it returns (0 when it panics)
\* and the cache it leaves
iget(inum) ==
    LET hit == iget_hit(inum)
        empty == {s \in ISlots : icache[s].ref = 0} IN
    IF hit /= {}
    THEN [ip |-> ifirst(hit), cache |-> [icache EXCEPT ![ifirst(hit)].ref = @ + 1]]
    ELSE IF empty /= {}
    THEN [ip |-> ifirst(empty),
          cache |-> [icache EXCEPT ![ifirst(empty)].inum = inum,
                                   ![ifirst(empty)].ref = 1,
                                   ![ifirst(empty)].valid = FALSE]]
    ELSE [ip |-> 0, cache |-> icache]

\* ilock(ip) by process p once the sleeplock is free: take it and, when the
\* slot is not valid, load type and nlink from the disk inode
ilock(cache, p, ip) ==
    IF cache[ip].valid
    THEN [cache EXCEPT ![ip].lock = p]
    ELSE [cache EXCEPT ![ip].lock = p,
                       ![ip].valid = TRUE,
                       ![ip].type = dinode[cache[ip].inum].type,
                       ![ip].nlink = dinode[cache[ip].inum].nlink]

\* iupdate(ip): copy type and nlink to the disk inode
iupdate(ip) ==
    [dinode EXCEPT ![icache[ip].inum].type = icache[ip].type,
                   ![icache[ip].inum].nlink = icache[ip].nlink]

\* a test that ignores the reference count
iput_last_any(ip, r) == icache[ip].valid /\ icache[ip].nlink = 0

\* iput's test: valid, nlink == 0 and r == 1, r the ref read under icache.lock
iput_last(ip, r) == icache[ip].valid /\ icache[ip].nlink = 0 /\ r = 1

igoto(p, l) == ipc' = [ipc EXCEPT ![p] = l]

\* sys_open without O_CREATE: namei looks the name up under the directory's
\* lock and igets the inode ("idle"); ilock, iunlock, and the file keeps the
\* reference ("open_ilock")
sys_open(p, inum) ==
    /\ IUp
    /\ \/ /\ ipc[p] = "idle"
          /\ iofile[p] = 0
          /\ iops < MaxIOps
          /\ dplock = 0
          /\ dirent[inum]
          /\ iops' = iops + 1
          /\ LET g == iget(inum) IN
             IF g.ip = 0
             THEN ipanic' = "iget: no inodes" /\ UNCHANGED <<icache, iip, ipc>>
             ELSE /\ icache' = g.cache
                  /\ iip' = [iip EXCEPT ![p] = g.ip]
                  /\ igoto(p, "open_ilock")
                  /\ UNCHANGED ipanic
          /\ UNCHANGED iofile
       \/ /\ ipc[p] = "open_ilock"
          /\ icache[iip[p]].inum = inum
          /\ icache[iip[p]].lock = 0
          /\ IF ~icache[iip[p]].valid /\ dinode[inum].type = 0
             THEN ipanic' = "ilock: no type" /\ UNCHANGED <<icache, iip, ipc, iofile>>
             ELSE /\ icache' = [ilock(icache, p, iip[p]) EXCEPT ![iip[p]].lock = 0]
                  /\ iofile' = [iofile EXCEPT ![p] = iip[p]]
                  /\ iip' = [iip EXCEPT ![p] = 0]
                  /\ igoto(p, "idle")
                  /\ UNCHANGED ipanic
          /\ UNCHANGED iops
    /\ UNCHANGED <<dinode, dirent, dplock, ifreed>>

\* sys_open with O_CREATE of a new name: create locks the directory, ialloc
\* takes the first disk inode of type 0 and igets it ("idle"); ilock, nlink
\* = 1, iupdate, dirlink, unlock the directory ("create_ilock"); iunlock and
\* the file keeps the reference ("create_iunlock")
create(p) ==
    /\ IUp
    /\ \/ /\ ipc[p] = "idle"
          /\ iofile[p] = 0
          /\ iops < MaxIOps
          /\ dplock = 0
          /\ iops' = iops + 1
          /\ LET free == {i \in Inums : dinode[i].type = 0} IN
             IF free = {}
             THEN ipanic' = "ialloc: no inodes"
                  /\ UNCHANGED <<icache, dinode, dplock, iip, ipc>>
             ELSE LET g == iget(ifirst(free)) IN
                  IF g.ip = 0
                  THEN ipanic' = "iget: no inodes"
                       /\ UNCHANGED <<icache, dinode, dplock, iip, ipc>>
                  ELSE /\ dinode' = [dinode EXCEPT ![ifirst(free)] =
                                       [type |-> T_FILE, nlink |-> 0, blocks |-> FALSE]]
                       /\ icache' = g.cache
                       /\ dplock' = p
                       /\ iip' = [iip EXCEPT ![p] = g.ip]
                       /\ igoto(p, "create_ilock")
                       /\ UNCHANGED ipanic
          /\ UNCHANGED <<dirent, iofile>>
       \/ /\ ipc[p] = "create_ilock"
          /\ icache[iip[p]].lock = 0
          /\ IF ~icache[iip[p]].valid /\ dinode[icache[iip[p]].inum].type = 0
             THEN ipanic' = "ilock: no type"
                  /\ UNCHANGED <<icache, dinode, dirent, dplock, ipc>>
             ELSE /\ icache' = [ilock(icache, p, iip[p]) EXCEPT ![iip[p]].nlink = 1]
                  /\ dinode' = [dinode EXCEPT ![icache[iip[p]].inum].type = icache'[iip[p]].type,
                                              ![icache[iip[p]].inum].nlink = 1]
                  /\ dirent' = [dirent EXCEPT ![icache[iip[p]].inum] = TRUE]
                  /\ dplock' = 0
                  /\ igoto(p, "create_iunlock")
                  /\ UNCHANGED ipanic
          /\ UNCHANGED <<iip, iofile, iops>>
       \/ /\ ipc[p] = "create_iunlock"
          /\ icache' = [icache EXCEPT ![iip[p]].lock = 0]
          /\ iofile' = [iofile EXCEPT ![p] = iip[p]]
          /\ iip' = [iip EXCEPT ![p] = 0]
          /\ igoto(p, "idle")
          /\ UNCHANGED <<dinode, dirent, dplock, iops, ipanic>>
    /\ UNCHANGED ifreed

\* a path lookup that starts at an inode the process holds: idup, later iput
idup(p) ==
    /\ IUp
    /\ ipc[p] = "idle"
    /\ iofile[p] /= 0
    /\ iops < MaxIOps
    /\ iops' = iops + 1
    /\ icache' = [icache EXCEPT ![iofile[p]].ref = @ + 1]
    /\ iip' = [iip EXCEPT ![p] = iofile[p]]
    /\ igoto(p, "iput")
    /\ UNCHANGED <<dinode, dirent, dplock, iofile, ifreed, ipanic>>

\* sys_close of the open file: fileclose calls iput on its inode
sys_close(p) ==
    /\ IUp
    /\ ipc[p] = "idle"
    /\ iofile[p] /= 0
    /\ iops < MaxIOps
    /\ iops' = iops + 1
    /\ iip' = [iip EXCEPT ![p] = iofile[p]]
    /\ iofile' = [iofile EXCEPT ![p] = 0]
    /\ igoto(p, "iput")
    /\ UNCHANGED <<icache, dinode, dirent, dplock, ifreed, ipanic>>

\* sys_unlink: lock the directory, dirlookup igets the inode ("idle"); ilock
\* it ("unlink_ilock"); clear the entry and unlock the directory
\* ("unlink_writei"); nlink--, iupdate, iunlock ("unlink_nlink"); then iput
sys_unlink(p, inum) ==
    /\ IUp
    /\ \/ /\ ipc[p] = "idle"
          /\ iops < MaxIOps
          /\ dplock = 0
          /\ dirent[inum]
          /\ iops' = iops + 1
          /\ LET g == iget(inum) IN
             IF g.ip = 0
             THEN ipanic' = "iget: no inodes" /\ UNCHANGED <<icache, dplock, iip, ipc>>
             ELSE /\ icache' = g.cache
                  /\ dplock' = p
                  /\ iip' = [iip EXCEPT ![p] = g.ip]
                  /\ igoto(p, "unlink_ilock")
                  /\ UNCHANGED ipanic
          /\ UNCHANGED <<dinode, dirent>>
       \/ /\ ipc[p] = "unlink_ilock"
          /\ icache[iip[p]].inum = inum
          /\ icache[iip[p]].lock = 0
          /\ IF ~icache[iip[p]].valid /\ dinode[inum].type = 0
             THEN ipanic' = "ilock: no type" /\ UNCHANGED <<icache, ipc>>
             ELSE IF ilock(icache, p, iip[p])[iip[p]].nlink < 1
             THEN ipanic' = "unlink: nlink < 1" /\ UNCHANGED <<icache, ipc>>
             ELSE /\ icache' = ilock(icache, p, iip[p])
                  /\ igoto(p, "unlink_writei")
                  /\ UNCHANGED ipanic
          /\ UNCHANGED <<dinode, dirent, dplock, iip, iops>>
       \/ /\ ipc[p] = "unlink_writei"
          /\ icache[iip[p]].inum = inum
          /\ dirent' = [dirent EXCEPT ![inum] = FALSE]
          /\ dplock' = 0
          /\ igoto(p, "unlink_nlink")
          /\ UNCHANGED <<icache, dinode, iip, iops, ipanic>>
       \/ /\ ipc[p] = "unlink_nlink"
          /\ icache[iip[p]].inum = inum
          /\ icache' = [icache EXCEPT ![iip[p]].nlink = @ - 1, ![iip[p]].lock = 0]
          /\ dinode' = [dinode EXCEPT ![inum].type = icache[iip[p]].type,
                                      ![inum].nlink = icache[iip[p]].nlink - 1]
          /\ igoto(p, "iput")
          /\ UNCHANGED <<dirent, dplock, iip, iops, ipanic>>
    /\ UNCHANGED <<iofile, ifreed>>

\* iput(ip): acquiresleep ("iput"); the test of valid, nlink and ref with
\* itrunc ("iput_test"); type = 0, iupdate, valid = 0 ("iput_type");
\* releasesleep ("iput_releasesleep"); ref-- under icache.lock ("iput_ref")
iput(p) ==
    /\ IUp
    /\ \/ /\ ipc[p] = "iput"
          /\ icache[iip[p]].lock = 0
          /\ icache' = [icache EXCEPT ![iip[p]].lock = p]
          /\ igoto(p, "iput_test")
          /\ UNCHANGED <<dinode, iip, ifreed>>
       \/ /\ ipc[p] = "iput_test"
          /\ IF iput_last(iip[p], icache[iip[p]].ref)
             THEN igoto(p, "iput_itrunc")
             ELSE igoto(p, "iput_releasesleep")
          /\ UNCHANGED <<icache, dinode, iip, ifreed>>
       \/ /\ ipc[p] = "iput_itrunc"
          /\ dinode' = [dinode EXCEPT ![icache[iip[p]].inum].blocks = FALSE]
          /\ ifreed' = [taken |-> TRUE, inum |-> icache[iip[p]].inum,
                        ref |-> icache[iip[p]].ref, nlink |-> icache[iip[p]].nlink,
                        typed |-> FALSE]
          /\ igoto(p, "iput_type")
          /\ UNCHANGED <<icache, iip>>
       \/ /\ ipc[p] = "iput_type"
          /\ icache' = [icache EXCEPT ![iip[p]].type = 0, ![iip[p]].valid = FALSE]
          /\ dinode' = [dinode EXCEPT ![icache[iip[p]].inum].type = 0,
                                      ![icache[iip[p]].inum].nlink = icache[iip[p]].nlink]
          /\ ifreed' = [taken |-> TRUE, inum |-> icache[iip[p]].inum,
                        ref |-> IF icache[iip[p]].ref > ifreed.ref
                                THEN icache[iip[p]].ref ELSE ifreed.ref,
                        nlink |-> icache[iip[p]].nlink, typed |-> TRUE]
          /\ igoto(p, "iput_releasesleep")
          /\ UNCHANGED iip
       \/ /\ ipc[p] = "iput_releasesleep"
          /\ icache' = [icache EXCEPT ![iip[p]].lock = 0]
          /\ igoto(p, "iput_ref")
          /\ UNCHANGED <<dinode, iip, ifreed>>
       \/ /\ ipc[p] = "iput_ref"
          /\ icache' = [icache EXCEPT ![iip[p]].ref = @ - 1]
          /\ iip' = [iip EXCEPT ![p] = 0]
          /\ igoto(p, "idle")
          /\ UNCHANGED <<dinode, ifreed>>
    /\ UNCHANGED <<dirent, dplock, iofile, iops, ipanic>>

(***************************************************************************)
(* --------- Spinlocks, sleep/wakeup, the scheduler, the buffer ---------- *)
(* --------- cache and the file table (proc.c, spinlock.c,      ---------- *)
(* --------- sleeplock.c, bio.c, ide.c, file.c)                 ---------- *)
(***************************************************************************)
NKCpus == 2      \* CPUs
NKProcs == 2     \* processes
NKBufs == 2      \* buffers of the cache (NBUF in the kernel)
NKBlocks == 2    \* disk blocks the processes ask for
MaxKOps == 2     \* system calls entered in one behaviour
MaxTicks == 1    \* timer interrupts that preempt a process

VARIABLES
    kcpu,       \* per CPU: [proc, ncli, intena, iflag] (struct cpu and EFLAGS.IF)
    kstate,     \* p->state
    kchan,      \* p->chan
    kstk,       \* per process: its kernel call stack, head = where it executes
    karg,       \* per process: blockno argument of its bread
    kbuf,       \* per process: the buffer b it got from bget (0: none)
    kslk,       \* per process: the argument lk of its sleep
    kintena,    \* per process: the local intena of its sched
    spin,       \* per spinlock: the CPU holding it (lk->cpu), 0 when free
    slk,        \* per buffer: its sleeplock [locked, pid]
    bufs,       \* per buffer: [dev, blockno, valid, dirty, refcnt]
    blist,      \* the cache's list, from bcache.head following next
    idequeue,   \* the IDE request queue, head first
    fref,       \* per open-file slot: f->ref
    klog,       \* [outstanding, committing, n]: log.outstanding, log.committing, log.lh.n
    kpanic,     \* the panic message once the kernel has panicked
    kops,       \* system calls entered so far
    kticks      \* preempting timer interrupts so far

kernVars == <<kcpu, kstate, kchan, kstk, karg, kbuf, kslk, kintena, spin, slk,
              bufs, blist, idequeue, fref, klog, kpanic, kops, kticks>>

KCpus == 1..NKCpus
KProcs == 1..NKProcs
KBufs == 1..NKBufs
KBlocks == 1..NKBlocks
KFiles == 1..NKProcs
ROOTDEV == 1

PTABLE == <<"ptable", 0>>
BCACHE == <<"bcache", 0>>
IDELOCK == <<"ide", 0>>
FTABLE == <<"ftable", 0>>
LOGLOCK == <<"log", 0>>
SlkSpin(i) == <<"slk", i>>      \* &b->lock.lk
SpinLocks == {PTABLE, BCACHE, IDELOCK, FTABLE, LOGLOCK} \cup {SlkSpin(i) : i \in KBufs}

NoChan == <<"0", 0>>
ChanBuf(i) == <<"buf", i>>      \* b
ChanSlk(i) == <<"sleeplock", i>>  \* &b->lock
ChanLog == <<"log", 0>>         \* &log

\* The state after main() and userinit-like setup: every process is in user
\* mode, the first NKCpus of them running, interrupts enabled, no lock held.
\* binit links buf[NBUF-1], ..., buf[0] from bcache.head.
KernInit ==
    /\ kcpu = [c \in KCpus |-> [proc |-> IF c <= NKProcs THEN c ELSE 0,
                                 ncli |-> 0, intena |-> TRUE, iflag |-> TRUE]]
    /\ kstate = [p \in KProcs |-> IF p <= NKCpus THEN "RUNNING" ELSE "RUNNABLE"]
    /\ kchan = [p \in KProcs |-> NoChan]
    /\ kstk = [p \in KProcs |-> IF p <= NKCpus THEN <<>> ELSE <<"yield_ret">>]
    /\ karg = [p \in KProcs |-> 0]
    /\ kbuf = [p \in KProcs |-> 0]
    /\ kslk = [p \in KProcs |-> PTABLE]
    /\ kintena = [p \in KProcs |-> p <= NKCpus]
    /\ spin = [l \in SpinLocks |-> 0]
    /\ slk = [i \in KBufs |-> [locked |-> FALSE, pid |-> 0]]
    /\ bufs = [i \in KBufs |-> [dev |-> 0, blockno |-> 0, valid |-> FALSE,
                                dirty |-> FALSE, refcnt |-> 0]]
    /\ blist = [k \in 1..NKBufs |-> NKBufs + 1 - k]
    /\ idequeue = <<>>
    /\ fref = [f \in KFiles |-> 1]
    /\ klog = [outstanding |-> 0, committing |-> 0, n |-> 0]
    /\ kpanic = NoPanic
    /\ kops = 0
    /\ kticks = 0

\* a popcli that enables interrupts at every pop
popcli_sti(cr) ==
    [cr EXCEPT !.ncli = @ - 1, !.iflag = TRUE]

\* pushcli and popcli on a struct cpu
pushcli(cr) ==
    [cr EXCEPT !.ncli = @ + 1,
               !.intena = IF cr.ncli = 0 THEN cr.iflag ELSE @,
               !.iflag = FALSE]
popcli(cr) ==
    [cr EXCEPT !.ncli = @ - 1,
               !.iflag = IF cr.ncli - 1 = 0 /\ cr.intena THEN TRUE ELSE @]

\* a wakeup1 that wakes every sleeping process, whatever its channel
wakeup1_all(st, ch, chan) ==
    [p \in KProcs |-> IF st[p] = "SLEEPING" THEN "RUNNABLE" ELSE st[p]]

\* wakeup1(chan)
wakeup1(st, ch, chan) ==
    [p \in KProcs |-> IF st[p] = "SLEEPING" /\ ch[p] = chan THEN "RUNNABLE" ELSE st[p]]

KUp == kpanic = NoPanic
\* myproc() is p: p is the process of some CPU and executes
OnCpu(p, c) == kcpu[c].proc = p /\ kstate[p] = "RUNNING"
At(p, l) == kstk[p] /= <<>> /\ Head(kstk[p]) = l
Goto(p, l) == [kstk EXCEPT ![p] = <<l>> \o Tail(@)]
Call(p, callee, cont) == [kstk EXCEPT ![p] = <<callee, cont>> \o Tail(@)]
Ret(p) == [kstk EXCEPT ![p] = Tail(@)]

\* a first pass that finds no buffer
bget_cached_none(blockno) == 0

\* The buffer the cache scan of bget finds, in list order from bcache.head:
\* first pass, the buffer caching (dev, blockno); 0 when there is none.
bget_cached(blockno) ==
    IF \E k \in 1..Len(blist) :
          bufs[blist[k]].dev = ROOTDEV /\ bufs[blist[k]].blockno = blockno
    THEN blist[CHOOSE k \in 1..Len(blist) :
            /\ bufs[blist[k]].dev = ROOTDEV /\ bufs[blist[k]].blockno = blockno
            /\ \A j \in 1..(k - 1) :
                  ~(bufs[blist[j]].dev = ROOTDEV /\ bufs[blist[j]].blockno = blockno)]
    ELSE 0

\* second pass: the first buffer from bcache.head with refcnt 0 and not
\* B_DIRTY; 0 when there is none.
bget_recycle ==
    IF \E k \in 1..Len(blist) : bufs[blist[k]].refcnt = 0 /\ ~bufs[blist[k]].dirty
    THEN blist[CHOOSE k \in 1..Len(blist) :
            /\ bufs[blist[k]].refcnt = 0 /\ ~bufs[blist[k]].dirty
            /\ \A j \in 1..(k - 1) :
                  ~(bufs[blist[j]].refcnt = 0 /\ ~bufs[blist[j]].dirty)]
    ELSE 0

\* sleep(chan, lk) up to the swtch of sched, by the process p of CPU c that
\* holds lk (not ptable.lock): acquire ptable.lock, release lk, mark
\* SLEEPING, run sched's checks and switch to the scheduler.  site is the
\* place sleep returns to.
SleepEnter(p, c, chan, lk, site) ==
    LET cr == popcli(pushcli(kcpu[c])) IN
    /\ spin[PTABLE] = 0
    /\ IF cr.ncli /= 1
       THEN /\ kpanic' = "sched locks"
            /\ UNCHANGED <<kcpu, kstate, kchan, kstk, kintena, spin>>
       ELSE IF cr.iflag
       THEN /\ kpanic' = "sched interruptible"
            /\ UNCHANGED <<kcpu, kstate, kchan, kstk, kintena, spin>>
       ELSE /\ spin' = [spin EXCEPT ![PTABLE] = c, ![lk] = 0]
            /\ kstate' = [kstate EXCEPT ![p] = "SLEEPING"]
            /\ kchan' = [kchan EXCEPT ![p] = chan]
            /\ kintena' = [kintena EXCEPT ![p] = cr.intena]
            /\ kcpu' = [kcpu EXCEPT ![c] = [cr EXCEPT !.proc = 0]]
            /\ kstk' = [kstk EXCEPT ![p] = <<"sleep_ret", site>> \o Tail(@)]
            /\ UNCHANGED kpanic

\* a scheduler that switches to a process whatever its state
scheduler_any(c, p) ==
    /\ KUp
    /\ kcpu[c].proc = 0
    /\ spin[PTABLE] \in {0, c}
    /\ kstate' = [kstate EXCEPT ![p] = "RUNNING"]
    /\ spin' = [spin EXCEPT ![PTABLE] = c]
    /\ kcpu' = [kcpu EXCEPT ![c] =
                  [(IF spin[PTABLE] = c THEN @ ELSE pushcli(@)) EXCEPT !.proc = p]]
    /\ UNCHANGED <<kchan, kstk, karg, kbuf, kslk, kintena, slk, bufs, blist,
                   idequeue, fref, klog, kpanic, kops, kticks>>

\* scheduler: a CPU without a process takes ptable.lock (or still holds it,
\* coming back from a process) and switches to a RUNNABLE process.
scheduler(c, p) ==
    /\ KUp
    /\ kcpu[c].proc = 0
    /\ spin[PTABLE] \in {0, c}
    /\ kstate[p] = "RUNNABLE"
    /\ kstate' = [kstate EXCEPT ![p] = "RUNNING"]
    /\ spin' = [spin EXCEPT ![PTABLE] = c]
    /\ kcpu' = [kcpu EXCEPT ![c] =
                  [(IF spin[PTABLE] = c THEN @ ELSE pushcli(@)) EXCEPT !.proc = p]]
    /\ UNCHANGED <<kchan, kstk, karg, kbuf, kslk, kintena, slk, bufs, blist,
                   idequeue, fref, klog, kpanic, kops, kticks>>

\* scheduler: the scan found nothing more to run; release ptable.lock and
\* enable interrupts at the top of the loop (sti).
scheduler_release(c) ==
    /\ KUp
    /\ kcpu[c].proc = 0
    /\ spin[PTABLE] = c
    /\ spin' = [spin EXCEPT ![PTABLE] = 0]
    /\ kcpu' = [kcpu EXCEPT ![c] = [popcli(@) EXCEPT !.iflag = TRUE]]
    /\ UNCHANGED <<kstate, kchan, kstk, karg, kbuf, kslk, kintena, slk, bufs,
                   blist, idequeue, fref, klog, kpanic, kops, kticks>>

\* sleep after sched returns: restore intena, clear chan, release
\* ptable.lock ("sleep_ret"); then reacquire lk ("sleep_reacq").
sleep(p, c) ==
    /\ KUp
    /\ OnCpu(p, c)
    /\ \/ /\ At(p, "sleep_ret")
          /\ spin[PTABLE] = c
          /\ kchan' = [kchan EXCEPT ![p] = NoChan]
          /\ spin' = [spin EXCEPT ![PTABLE] = 0]
          /\ kcpu' = [kcpu EXCEPT ![c] = popcli([@ EXCEPT !.intena = kintena[p]])]
          /\ kstk' = Goto(p, "sleep_reacq")
       \/ /\ At(p, "sleep_reacq")
          /\ spin[kslk[p]] = 0
          /\ spin' = [spin EXCEPT ![kslk[p]] = c]
          /\ kcpu' = [kcpu EXCEPT ![c] = pushcli(@)]
          /\ kstk' = Ret(p)
          /\ UNCHANGED kchan
    /\ UNCHANGED <<kstate, karg, kbuf, kslk, kintena, slk, bufs, blist, idequeue,
                   fref, klog, kpanic, kops, kticks>>

\* trap on a timer interrupt (vector T_IRQ0 + IRQ_TIMER) taken by the
\* running process of CPU c: yield up to the swtch of sched.  The interrupt
\* gate has cleared IF, so pushcli records intena = 0.
yield(c, p) ==
    LET cr == pushcli([kcpu[c] EXCEPT !.iflag = FALSE]) IN
    /\ KUp
    /\ kticks < MaxTicks
    /\ OnCpu(p, c)
    /\ kcpu[c].iflag
    /\ spin[PTABLE] = 0
    /\ kticks' = kticks + 1
    /\ spin' = [spin EXCEPT ![PTABLE] = c]
    /\ kstate' = [kstate EXCEPT ![p] = "RUNNABLE"]
    /\ kintena' = [kintena EXCEPT ![p] = cr.intena]
    /\ kcpu' = [kcpu EXCEPT ![c] = [cr EXCEPT !.proc = 0]]
    /\ kstk' = [kstk EXCEPT ![p] = <<"yield_ret">> \o @]
    /\ UNCHANGED <<kchan, karg, kbuf, kslk, slk, bufs, blist, idequeue, fref,
                   klog, kpanic, kops>>

\* yield after sched returns: release ptable.lock; trap returns and iret
\* restores the interrupted context with interrupts enabled.
yield_return(p, c) ==
    /\ KUp
    /\ OnCpu(p, c)
    /\ At(p, "yield_ret")
    /\ spin[PTABLE] = c
    /\ spin' = [spin EXCEPT ![PTABLE] = 0]
    /\ kcpu' = [kcpu EXCEPT ![c] =
                  [popcli([@ EXCEPT !.intena = kintena[p]]) EXCEPT !.iflag = TRUE]]
    /\ kstk' = Ret(p)
    /\ UNCHANGED <<kstate, kchan, karg, kbuf, kslk, kintena, slk, bufs, blist,
                   idequeue, fref, klog, kpanic, kops, kticks>>

\* acquiresleep(&b->lock): acquire the inner spinlock ("acquiresleep"), then
\* sleep on the sleeplock while it is locked, else take it and release the
\* inner spinlock ("acquiresleep_test").
acquiresleep(p, c) ==
    /\ KUp
    /\ OnCpu(p, c)
    /\ \/ /\ At(p, "acquiresleep")
          /\ spin[SlkSpin(kbuf[p])] = 0
          /\ spin' = [spin EXCEPT ![SlkSpin(kbuf[p])] = c]
          /\ kcpu' = [kcpu EXCEPT ![c] = pushcli(@)]
          /\ kstk' = Goto(p, "acquiresleep_test")
          /\ UNCHANGED <<kstate, kchan, kslk, kintena, slk, kpanic>>
       \/ /\ At(p, "acquiresleep_test")
          /\ slk[kbuf[p]].locked
          /\ kslk' = [kslk EXCEPT ![p] = SlkSpin(kbuf[p])]
          /\ SleepEnter(p, c, ChanSlk(kbuf[p]), SlkSpin(kbuf[p]), "acquiresleep_test")
          /\ UNCHANGED slk
       \/ /\ At(p, "acquiresleep_test")
          /\ ~slk[kbuf[p]].locked
          /\ slk' = [slk EXCEPT ![kbuf[p]] = [locked |-> TRUE, pid |-> p]]
          /\ spin' = [spin EXCEPT ![SlkSpin(kbuf[p])] = 0]
          /\ kcpu' = [kcpu EXCEPT ![c] = popcli(@)]
          /\ kstk' = Ret(p)
          /\ UNCHANGED <<kstate, kchan, kslk, kintena, kpanic>>
    /\ UNCHANGED <<karg, kbuf, bufs, blist, idequeue, fref, klog, kops, kticks>>

\* bget(dev, blockno): acquire bcache.lock and scan ("bget"); on a hit the
\* code calls acquiresleep before release(&bcache.lock) ("bget_hit_rel").
bget(p, c) ==
    /\ KUp
    /\ OnCpu(p, c)
    /\ \/ /\ At(p, "bget")
          /\ spin[BCACHE] = 0
          /\ LET hit == bget_cached(karg[p])
                 free == bget_recycle IN
             IF hit /= 0
             THEN /\ bufs' = [bufs EXCEPT ![hit].refcnt = @ + 1]
                  /\ kbuf' = [kbuf EXCEPT ![p] = hit]
                  /\ spin' = [spin EXCEPT ![BCACHE] = c]
                  /\ kcpu' = [kcpu EXCEPT ![c] = pushcli(@)]
                  /\ kstk' = Call(p, "acquiresleep", "bget_hit_rel")
                  /\ UNCHANGED kpanic
             ELSE IF free /= 0
             THEN /\ bufs' = [bufs EXCEPT ![free] =
                                [dev |-> ROOTDEV, blockno |-> karg[p], valid |-> FALSE,
                                 dirty |-> FALSE, refcnt |-> 1]]
                  /\ kbuf' = [kbuf EXCEPT ![p] = free]
                  /\ kstk' = Call(p, "acquiresleep", "bread")
                  /\ UNCHANGED <<spin, kcpu, kpanic>>
             ELSE /\ kpanic' = "bget: no buffers"
                  /\ UNCHANGED <<bufs, kbuf, spin, kcpu, kstk>>
       \/ /\ At(p, "bget_hit_rel")
          /\ spin' = [spin EXCEPT ![BCACHE] = 0]
          /\ kcpu' = [kcpu EXCEPT ![c] = popcli(@)]
          /\ kstk' = Goto(p, "bread")
          /\ UNCHANGED <<bufs, kbuf, kpanic>>
    /\ UNCHANGED <<kstate, kchan, karg, kslk, kintena, slk, blist, idequeue,
                   fref, klog, kops, kticks>>

\* bread after bget: iderw(b) when the buffer is not B_VALID.
bread(p, c) ==
    /\ KUp
    /\ OnCpu(p, c)
    /\ At(p, "bread")
    /\ kstk' = IF bufs[kbuf[p]].valid THEN Ret(p) ELSE Goto(p, "iderw")
    /\ UNCHANGED <<kcpu, kstate, kchan, karg, kbuf, kslk, kintena, spin, slk, bufs,
                   blist, idequeue, fref, klog, kpanic, kops, kticks>>

\* iderw(b): append b to idequeue under idelock ("iderw"), then sleep on b
\* until the request is done, and release idelock ("iderw_wait").
iderw(p, c) ==
    /\ KUp
    /\ OnCpu(p, c)
    /\ \/ /\ At(p, "iderw")
          /\ spin[IDELOCK] = 0
          /\ spin' = [spin EXCEPT ![IDELOCK] = c]
          /\ kcpu' = [kcpu EXCEPT ![c] = pushcli(@)]
          /\ idequeue' = Append(idequeue, kbuf[p])
          /\ kstk' = Goto(p, "iderw_wait")
          /\ UNCHANGED <<kstate, kchan, kslk, kintena, kpanic>>
       \/ /\ At(p, "iderw_wait")
          /\ ~(bufs[kbuf[p]].valid /\ ~bufs[kbuf[p]].dirty)
          /\ kslk' = [kslk EXCEPT ![p] = IDELOCK]
          /\ SleepEnter(p, c, ChanBuf(kbuf[p]), IDELOCK, "iderw_wait")
          /\ UNCHANGED idequeue
       \/ /\ At(p, "iderw_wait")
          /\ bufs[kbuf[p]].valid /\ ~bufs[kbuf[p]].dirty
          /\ spin' = [spin EXCEPT ![IDELOCK] = 0]
          /\ kcpu' = [kcpu EXCEPT ![c] = popcli(@)]
          /\ kstk' = Ret(p)
          /\ UNCHANGED <<kstate, kchan, kslk, kintena, kpanic, idequeue>>
    /\ UNCHANGED <<karg, kbuf, slk, bufs, blist, fref, klog, kops, kticks>>

\* trap on T_IRQ0 + IRQ_IDE, delivered to the last CPU (ioapicenable in
\* ideinit): ideintr takes the head of idequeue, sets B_VALID, clears
\* B_DIRTY and wakes the process sleeping on the buffer.
ideintr(c) ==
    /\ KUp
    /\ c = NKCpus
    /\ kcpu[c].iflag
    /\ idequeue /= <<>>
    /\ spin[IDELOCK] = 0
    /\ spin[PTABLE] = 0
    /\ idequeue' = Tail(idequeue)
    /\ bufs' = [bufs EXCEPT ![Head(idequeue)].valid = TRUE,
                            ![Head(idequeue)].dirty = FALSE]
    /\ kstate' = wakeup1(kstate, kchan, ChanBuf(Head(idequeue)))
    /\ UNCHANGED <<kcpu, kchan, kstk, karg, kbuf, kslk, kintena, spin, slk, blist,
                   fref, klog, kpanic, kops, kticks>>

\* the list after brelse moved buffer b to bcache.head
move_to_head(b) == <<b>> \o SelectSeq(blist, LAMBDA x : x /= b)

\* brelse(b): releasesleep(&b->lock) with its wakeup ("brelse"), then under
\* bcache.lock drop the reference and move an unused buffer to the head of
\* the list ("brelse_put").
brelse(p, c) ==
    /\ KUp
    /\ OnCpu(p, c)
    /\ \/ /\ At(p, "brelse")
          /\ IF ~(slk[kbuf[p]].locked /\ slk[kbuf[p]].pid = p)
             THEN /\ kpanic' = "brelse"
                  /\ UNCHANGED <<slk, kstate, kstk>>
             ELSE /\ spin[SlkSpin(kbuf[p])] = 0
                  /\ spin[PTABLE] = 0
                  /\ slk' = [slk EXCEPT ![kbuf[p]] = [locked |-> FALSE, pid |-> 0]]
                  /\ kstate' = wakeup1(kstate, kchan, ChanSlk(kbuf[p]))
                  /\ kstk' = Goto(p, "brelse_put")
                  /\ UNCHANGED kpanic
          /\ UNCHANGED <<bufs, blist, kbuf>>
       \/ /\ At(p, "brelse_put")
          /\ spin[BCACHE] = 0
          /\ bufs' = [bufs EXCEPT ![kbuf[p]].refcnt = @ - 1]
          /\ blist' = IF bufs[kbuf[p]].refcnt = 1 /\ Head(blist) /= kbuf[p]
                      THEN move_to_head(kbuf[p]) ELSE blist
          /\ kbuf' = [kbuf EXCEPT ![p] = 0]
          /\ kstk' = Ret(p)
          /\ UNCHANGED <<slk, kstate, kpanic>>
    /\ UNCHANGED <<kcpu, kchan, karg, kslk, kintena, spin, idequeue, fref, klog,
                   kops, kticks>>

\* begin_op: acquire log.lock ("begin_op"); sleep on &log while a commit is
\* in progress or the log could overflow, else count the operation and
\* release log.lock ("begin_op_loop").
k_begin_op(p, c) ==
    /\ KUp
    /\ OnCpu(p, c)
    /\ \/ /\ At(p, "begin_op")
          /\ spin[LOGLOCK] = 0
          /\ spin' = [spin EXCEPT ![LOGLOCK] = c]
          /\ kcpu' = [kcpu EXCEPT ![c] = pushcli(@)]
          /\ kstk' = Goto(p, "begin_op_loop")
          /\ UNCHANGED <<kstate, kchan, kslk, kintena, kpanic, klog>>
       \/ /\ At(p, "begin_op_loop")
          /\ \/ klog.committing = 1
             \/ klog.n + (klog.outstanding + 1) * MAXOPBLOCKS > LOGSIZE
          /\ kslk' = [kslk EXCEPT ![p] = LOGLOCK]
          /\ SleepEnter(p, c, ChanLog, LOGLOCK, "begin_op_loop")
          /\ UNCHANGED klog
       \/ /\ At(p, "begin_op_loop")
          /\ klog.committing = 0
          /\ klog.n + (klog.outstanding + 1) * MAXOPBLOCKS <= LOGSIZE
          /\ klog' = [klog EXCEPT !.outstanding = @ + 1]
          /\ spin' = [spin EXCEPT ![LOGLOCK] = 0]
          /\ kcpu' = [kcpu EXCEPT ![c] = popcli(@)]
          /\ kstk' = Ret(p)
          /\ UNCHANGED <<kstate, kchan, kslk, kintena, kpanic>>
    /\ UNCHANGED <<karg, kbuf, slk, bufs, blist, idequeue, fref, kops, kticks>>

\* end_op: the test of log.committing before the lock ("end_op"), the
\* locked section ("end_op_locked"), the test after the release with the
\* commit of an empty transaction ("end_op_test"), and the clearing of
\* log.committing with its wakeup ("end_op_clear").
k_end_op(p, c) ==
    /\ KUp
    /\ OnCpu(p, c)
    /\ \/ /\ At(p, "end_op")
          /\ IF klog.committing = 1
             THEN kpanic' = "log.committing" /\ UNCHANGED kstk
             ELSE kstk' = Goto(p, "end_op_locked") /\ UNCHANGED kpanic
          /\ UNCHANGED <<klog, kstate>>
       \/ /\ At(p, "end_op_locked")
          /\ spin[LOGLOCK] = 0
          /\ IF klog.outstanding - 1 = 0
             THEN /\ klog' = [klog EXCEPT !.outstanding = 0, !.committing = 1]
                  /\ UNCHANGED kstate
             ELSE /\ spin[PTABLE] = 0
                  /\ klog' = [klog EXCEPT !.outstanding = @ - 1]
                  /\ kstate' = wakeup1(kstate, kchan, ChanLog)
          /\ kstk' = Goto(p, "end_op_test")
          /\ UNCHANGED kpanic
       \/ /\ At(p, "end_op_test")
          /\ kstk' = IF klog.committing = 1 THEN Goto(p, "end_op_clear") ELSE Ret(p)
          /\ UNCHANGED <<klog, kstate, kpanic>>
       \/ /\ At(p, "end_op_clear")
          /\ spin[LOGLOCK] = 0
          /\ spin[PTABLE] = 0
          /\ klog' = [klog EXCEPT !.committing = 0]
          /\ kstate' = wakeup1(kstate, kchan, ChanLog)
          /\ kstk' = Ret(p)
          /\ UNCHANGED kpanic
    /\ UNCHANGED <<kcpu, kchan, karg, kbuf, kslk, kintena, spin, slk, bufs, blist,
                   idequeue, fref, kops, kticks>>

\* fileclose(f) on the FD_INODE file of process p: under ftable.lock drop
\* the reference; at zero call begin_op, iput and end_op and only then
\* release ftable.lock ("fileclose_rel").  iput finds the inode unlocked.
fileclose(p, c) ==
    /\ KUp
    /\ OnCpu(p, c)
    /\ \/ /\ At(p, "fileclose")
          /\ spin[FTABLE] = 0
          /\ IF fref[p] < 1
             THEN /\ kpanic' = "fileclose"
                  /\ UNCHANGED <<fref, spin, kcpu, kstk>>
             ELSE IF fref[p] - 1 > 0
             THEN /\ fref' = [fref EXCEPT ![p] = @ - 1]
                  /\ kstk' = Ret(p)
                  /\ UNCHANGED <<spin, kcpu, kpanic>>
             ELSE /\ fref' = [fref EXCEPT ![p] = @ - 1]
                  /\ spin' = [spin EXCEPT ![FTABLE] = c]
                  /\ kcpu' = [kcpu EXCEPT ![c] = pushcli(@)]
                  /\ kstk' = Call(p, "begin_op", "iput")
                  /\ UNCHANGED kpanic
       \/ /\ At(p, "iput")
          /\ kstk' = Call(p, "end_op", "fileclose_rel")
          /\ UNCHANGED <<fref, spin, kcpu, kpanic>>
       \/ /\ At(p, "fileclose_rel")
          /\ spin' = [spin EXCEPT ![FTABLE] = 0]
          /\ kcpu' = [kcpu EXCEPT ![c] = popcli(@)]
          /\ kstk' = Ret(p)
          /\ UNCHANGED <<fref, kpanic>>
    /\ UNCHANGED <<kstate, kchan, karg, kbuf, kslk, kintena, slk, bufs, blist,
                   idequeue, klog, kops, kticks>>

\* A process in user mode enters a system call: sys_read reads one block of
\* its file (bread, brelse); sys_chdir looks a path up inside a transaction
\* (begin_op, bread, brelse, end_op); sys_close closes its file.
syscall(p, c, blk) ==
    /\ KUp
    /\ OnCpu(p, c)
    /\ kstk[p] = <<>>
    /\ kops < MaxKOps
    /\ kops' = kops + 1
    /\ \/ /\ kstk' = [kstk EXCEPT ![p] = <<"bget", "brelse">>]
          /\ karg' = [karg EXCEPT ![p] = blk]
       \/ /\ kstk' = [kstk EXCEPT ![p] = <<"begin_op", "bget", "brelse", "end_op">>]
          /\ karg' = [karg EXCEPT ![p] = blk]
       \/ /\ fref[p] > 0
          /\ kstk' = [kstk EXCEPT ![p] = <<"fileclose">>]
          /\ UNCHANGED karg
    /\ UNCHANGED <<kcpu, kstate, kchan, kbuf, kslk, kintena, spin, slk, bufs, blist,
                   idequeue, fref, klog, kpanic, kticks>>

\* ---------------------------------------------------------------------------
\* Traps: system-call arguments, kill, exit and hardware interrupts
\* (trap.c, syscall.c, sysproc.c, proc.c).  Process p runs on CPU p - 1.
\* ---------------------------------------------------------------------------
NTProcs == 2       \* processes, one per CPU
MaxTTicks == 1     \* timer interrupts counted by CPU 0
TSZ == 10          \* p->sz of every process, in bytes

T_IRQ0 == 32
T_SYSCALL == 64
IRQ_TIMER == 0
IRQ_KBD == 1
IRQ_COM1 == 4
IRQ_IDE == 14

VARIABLES
    tstate,     \* p->state: "RUNNING" or "ZOMBIE"
    tkilled,    \* p->killed
    tpc,        \* where p executes: "user", or a place inside sys_chdir
    tilock,     \* holder of the sleeplock of the directory inode (0: free)
    tintr,      \* per CPU: trapno of the interrupt whose trap() is past its switch (0: none)
    tmem,       \* the int stored at each address, as *(int*)(addr) reads it
    tsys,       \* the last sys_kill: [called, addr, pid, eax, before, after]
    tlast,      \* the last hardware interrupt that reached trap: [trapno, routed, eoi]
    texit,      \* per process: tpc when exit() was entered ("none": not entered)
    ticks,      \* ticks
    tpanic      \* the panic message once the kernel has panicked

trapVars == <<tstate, tkilled, tpc, tilock, tintr, tmem, tsys, tlast, texit, ticks,
              tpanic>>

TProcs == 1..NTProcs
TCpus == 0..(NTProcs - 1)
TAddrs == {4, 8, 12}          \* esp + 4 for the esp values a process uses
TEsps == {0, 4, 8}
HwTraps == {T_IRQ0 + IRQ_TIMER, T_IRQ0 + IRQ_IDE, T_IRQ0 + IRQ_KBD, T_IRQ0 + IRQ_COM1}

\* Two processes run in user mode; memory holds any small ints.
TrapInit ==
    /\ tstate = [p \in TProcs |-> "RUNNING"]
    /\ tkilled = [p \in TProcs |-> 0]
    /\ tpc = [p \in TProcs |-> "user"]
    /\ tilock = 0
    /\ tintr = [c \in TCpus |-> 0]
    /\ tmem \in [TAddrs -> 0..NTProcs]
    /\ tsys = [called |-> FALSE, addr |-> 0, pid |-> 0, eax |-> 0,
               before |-> tkilled, after |-> tkilled]
    /\ tlast = [trapno |-> 0, routed |-> FALSE, eoi |-> FALSE]
    /\ texit = [p \in TProcs |-> "none"]
    /\ ticks = 0
    /\ tpanic = NoPanic

TUp == tpanic = NoPanic
\* myproc() on CPU c: 0 once the process has exited
t_myproc(c) == IF tstate[c + 1] = "RUNNING" THEN c + 1 ELSE 0
\* p executes and its CPU is not inside an interrupt's trap()
TRuns(p) == tstate[p] = "RUNNING" /\ tintr[p - 1] = 0

\* fetchint(addr, ip): the range check against curproc->sz is commented
\* out; the int at addr is stored through ip and 0 is returned.
fetchint(addr) == [r |-> 0, ip |-> tmem[addr]]

\* argint(n, ip)
argint(n, esp) == fetchint(esp + 4 + 4 * n)

\* kill(pid): [r, killed] over the process table
kill(pid, killed) ==
    IF pid \in TProcs
    THEN [r |-> 0, killed |-> [killed EXCEPT ![pid] = 1]]
    ELSE [r |-> -1, killed |-> killed]

\* the test "if (myproc() && myproc()->killed) exit();" of trap for process
\* p, given the killed flags k: exit never returns, the process becomes a
\* ZOMBIE; ctx is where the process was executing when trap was entered.
t_exit_if_killed(p, k, ctx, st, ex) ==
    IF p /= 0 /\ k[p] = 1
    THEN [state |-> [st EXCEPT ![p] = "ZOMBIE"], exit |-> [ex EXCEPT ![p] = ctx]]
    ELSE [state |-> st, exit |-> ex]

\* trap with T_SYSCALL from user mode, eax = SYS_kill and the stack pointer
\* esp: the killed test, syscall, sys_kill (argint, kill), the killed test.
\* An address beyond p->sz may also be unmapped: the page fault in the
\* kernel ends in panic("trap").
sys_kill(p, esp) ==
    /\ TUp
    /\ TRuns(p)
    /\ tpc[p] = "user"
    /\ IF tkilled[p] = 1
       THEN /\ tstate' = [tstate EXCEPT ![p] = "ZOMBIE"]
            /\ texit' = [texit EXCEPT ![p] = "user"]
            /\ UNCHANGED <<tkilled, tsys, tpanic>>
       ELSE \/ /\ esp + 4 >= TSZ
               /\ tpanic' = "trap"
               /\ UNCHANGED <<tstate, texit, tkilled, tsys>>
            \/ LET a == argint(0, esp)
                   k == kill(a.ip, tkilled)
                   eax == IF a.r < 0 THEN -1 ELSE k.r
                   kd == IF a.r < 0 THEN tkilled ELSE k.killed
                   e == t_exit_if_killed(p, kd, "user", tstate, texit) IN
               /\ tkilled' = kd
               /\ tsys' = [called |-> TRUE, addr |-> esp + 4, pid |-> a.ip,
                           eax |-> eax, before |-> tkilled, after |-> kd]
               /\ tstate' = e.state
               /\ texit' = e.exit
               /\ UNCHANGED tpanic
    /\ UNCHANGED <<tpc, tilock, tintr, tmem, tlast, ticks>>

\* sys_chdir in three steps: trap's killed test and begin_op ("chdir_op");
\* ilock(ip) ("chdir_locked"); iunlock, iput, end_op, the return to trap
\* and its killed test.
sys_chdir(p) ==
    /\ TUp
    /\ TRuns(p)
    /\ \/ /\ tpc[p] = "user"
          /\ IF tkilled[p] = 1
             THEN /\ tstate' = [tstate EXCEPT ![p] = "ZOMBIE"]
                  /\ texit' = [texit EXCEPT ![p] = "user"]
                  /\ UNCHANGED tpc
             ELSE /\ tpc' = [tpc EXCEPT ![p] = "chdir_op"]
                  /\ UNCHANGED <<tstate, texit>>
          /\ UNCHANGED tilock
       \/ /\ tpc[p] = "chdir_op"
          /\ tilock = 0
          /\ tilock' = p
          /\ tpc' = [tpc EXCEPT ![p] = "chdir_locked"]
          /\ UNCHANGED <<tstate, texit>>
       \/ /\ tpc[p] = "chdir_locked"
          /\ tilock' = 0
          /\ tpc' = [tpc EXCEPT ![p] = "user"]
          /\ LET e == t_exit_if_killed(p, tkilled, "user", tstate, texit) IN
                tstate' = e.state /\ texit' = e.exit
    /\ UNCHANGED <<tkilled, tintr, tmem, tsys, tlast, ticks, tpanic>>

\* trap on a hardware interrupt on CPU c, up to the end of its switch: the
\* killed test first; then the handler of trapno (ticks++ and wakeup on CPU
\* 0 for the timer, ideintr, kbdintr, uartintr) and lapiceoi.
trap(c, trapno) ==
    LET p == t_myproc(c) IN
    /\ TUp
    /\ tintr[c] = 0
    /\ (trapno = T_IRQ0 + IRQ_TIMER /\ c = 0) => ticks < MaxTTicks
    /\ IF p /= 0 /\ tkilled[p] = 1
       THEN /\ tstate' = [tstate EXCEPT ![p] = "ZOMBIE"]
            /\ texit' = [texit EXCEPT ![p] = tpc[p]]
            /\ tlast' = [trapno |-> trapno, routed |-> FALSE, eoi |-> FALSE]
            /\ UNCHANGED <<tintr, ticks>>
       ELSE /\ ticks' = IF trapno = T_IRQ0 + IRQ_TIMER /\ c = 0 THEN ticks + 1 ELSE ticks
            /\ tlast' = [trapno |-> trapno, routed |-> TRUE, eoi |-> TRUE]
            /\ tintr' = [tintr EXCEPT ![c] = trapno]
            /\ UNCHANGED <<tstate, texit>>
    /\ UNCHANGED <<tkilled, tpc, tilock, tmem, tsys, tpanic>>

\* the end of trap for that interrupt: the killed test, with no test of
\* the privilege level in tf->cs, and the return to the interrupted code.
trap_return(c) ==
    LET p == t_myproc(c)
        e == t_exit_if_killed(p, tkilled, IF p = 0 THEN "none" ELSE tpc[p], tstate, texit) IN
    /\ TUp
    /\ tintr[c] /= 0
    /\ tintr' = [tintr EXCEPT ![c] = 0]
    /\ tstate' = e.state
    /\ texit' = e.exit
    /\ UNCHANGED <<tkilled, tpc, tilock, tmem, tsys, tlast, ticks, tpanic>>

\* trap on a fault of process p in user mode (default case): the process
\* is marked killed and the test at the end of trap makes it exit.
trap_fault(p) ==
    /\ TUp
    /\ TRuns(p)
    /\ tpc[p] = "user"
    /\ tkilled' = [tkilled EXCEPT ![p] = 1]
    /\ tstate' = [tstate EXCEPT ![p] = "ZOMBIE"]
    /\ texit' = [texit EXCEPT ![p] = "user"]
    /\ UNCHANGED <<tpc, tilock, tintr, tmem, tsys, tlast, ticks, tpanic>>

\* ---------------------------------------------------------------------------
\* Pipes and the file table (file.c, pipe.c, sysfile.c).  File slot 1 is
\* the console, open as descriptor 0 of every process.  piperead, pipewrite
\* and pipeclose hold p->lock from entry to sleep or return, so each such
\* stretch is one step.
\* ---------------------------------------------------------------------------
NPProcs == 2       \* processes
NPFiles == 3       \* slots of ftable.file (NFILE in the kernel)
NPFds == 3         \* descriptors per process (NOFILE in the kernel)
PIPESIZE == 1      \* bytes a pipe holds (512 in the kernel)
MaxN == 3          \* largest byte count of a read or write
MaxPBytes == 3     \* bytes written to a pipe in one behaviour

VARIABLES
    ftable,     \* per file slot: [ref, type, readable, writable, pipe]
    ofile,      \* per process: p->ofile, descriptor -> file slot (0: closed)
    pipes,      \* the pipe page: [alloc, readopen, writeopen, nread, nwrite]
    pstate,     \* p->state
    pchan,      \* p->chan
    ppc,        \* where the process executes: "user", "piperead", "pipewrite"
    pcall,      \* arguments and progress of the call: [f, n, i]
    pret,       \* the last return value: [call, r]
    ufd,        \* per process: the int fd[2] that sys_pipe wrote
    ppanic      \* the panic message once the kernel has panicked

pipeVars == <<ftable, ofile, pipes, pstate, pchan, ppc, pcall, pret, ufd, ppanic>>

PProcs == 1..NPProcs
PFiles == 1..NPFiles
PFds == 0..(NPFds - 1)
NoPipe == [alloc |-> FALSE, readopen |-> 0, writeopen |-> 0, nread |-> 0, nwrite |-> 0]
NoFile == [ref |-> 0, type |-> "FD_NONE", readable |-> 0, writable |-> 0, pipe |-> 0]
ChanNread == <<"nread", 1>>      \* &p->nread
ChanNwrite == <<"nwrite", 1>>    \* &p->nwrite

PipeInit ==
    /\ ftable = [f \in PFiles |->
                  IF f = 1 THEN [ref |-> NPProcs, type |-> "FD_INODE", readable |-> 1,
                                 writable |-> 1, pipe |-> 0]
                  ELSE NoFile]
    /\ ofile = [p \in PProcs |-> [fd \in PFds |-> IF fd = 0 THEN 1 ELSE 0]]
    /\ pipes = NoPipe
    /\ pstate = [p \in PProcs |-> "RUNNING"]
    /\ pchan = [p \in PProcs |-> NoChan]
    /\ ppc = [p \in PProcs |-> "user"]
    /\ pcall = [p \in PProcs |-> [f |-> 0, n |-> 0, i |-> 0]]
    /\ pret = [p \in PProcs |-> [call |-> "none", r |-> 0]]
    /\ ufd = [p \in PProcs |-> <<-1, -1>>]
    /\ ppanic = NoPanic

PUp == ppanic = NoPanic
Min(a, b) == IF a < b THEN a ELSE b

\* wakeup(chan) on the process states st
p_wakeup(st, chan) ==
    [p \in PProcs |-> IF st[p] = "SLEEPING" /\ pchan[p] = chan THEN "RUNNABLE" ELSE st[p]]

\* filealloc on the table ft: the first slot with ref == 0, 0 when none
filealloc(ft) ==
    IF \E f \in PFiles : ft[f].ref = 0
    THEN CHOOSE f \in PFiles : ft[f].ref = 0 /\ \A g \in PFiles : ft[g].ref = 0 => f <= g
    ELSE 0

\* fdalloc(f) on the descriptor table of: [fd, ofile]; the first
\* descriptor whose entry is 0 receives f; fd = -1 when there is none.
fdalloc(of, f) ==
    IF \E fd \in PFds : of[fd] = 0
    THEN LET fd == CHOOSE d \in PFds : of[d] = 0 /\ \A e \in PFds : of[e] = 0 => d <= e
         IN [fd |-> fd, ofile |-> [of EXCEPT ![fd] = f]]
    ELSE [fd |-> -1, ofile |-> of]

\* pipealloc(f0, f1): both parameters are struct file* passed by value.
\* Result [r, ftable, pipes]; the caller's pointers are not changed.
pipealloc ==
    LET f0 == filealloc(ftable)
        ft0 == IF f0 = 0 THEN ftable ELSE [ftable EXCEPT ![f0].ref = 1]
        f1 == IF f0 = 0 THEN 0 ELSE filealloc(ft0)
        ft1 == IF f1 = 0 THEN ft0 ELSE [ft0 EXCEPT ![f1].ref = 1]
    IN IF f0 = 0 \/ f1 = 0 \/ pipes.alloc
       THEN \* failure: fileclose(f0) and fileclose(f1) drop the references
            [r |-> -1, ftable |-> ftable, pipes |-> pipes]
       ELSE [r |-> 0,
             ftable |-> [ft1 EXCEPT
                 ![f0] = [ref |-> 1, type |-> "FD_PIPE", readable |-> 1, writable |-> 0, pipe |-> 1],
                 ![f1] = [ref |-> 1, type |-> "FD_PIPE", readable |-> 0, writable |-> 1, pipe |-> 1]],
             pipes |-> [alloc |-> TRUE, readopen |-> 1, writeopen |-> 1,
                        nread |-> 0, nwrite |-> 0]]

\* sys_pipe: rf and wf stay 0 after pipealloc(rf, wf); fdalloc(rf) and
\* fdalloc(wf) store 0 in the first free descriptor and return it.  With no
\* free descriptor the code calls fileclose(0) twice: fileclose reads
\* f->ref through the null pointer, that is the word at address 4 of the
\* caller's user image, so it either panics ("fileclose", value < 1) or
\* decrements that word and returns; the files and the pipe that pipealloc
\* set up stay as they are either way.
sys_pipe(p) ==
    LET a == pipealloc
        rf == 0
        wf == 0
        d0 == fdalloc(ofile[p], rf)
        d1 == fdalloc(d0.ofile, wf) IN
    /\ PUp
    /\ pstate[p] = "RUNNING"
    /\ ppc[p] = "user"
    /\ IF a.r < 0
       THEN /\ pret' = [pret EXCEPT ![p] = [call |-> "sys_pipe", r |-> -1]]
            /\ UNCHANGED <<ftable, pipes, ofile, ufd, ppanic>>
       ELSE IF d0.fd < 0 \/ d1.fd < 0
       THEN \/ /\ ppanic' = "fileclose"
               /\ UNCHANGED <<ftable, pipes, ofile, ufd, pret>>
            \/ /\ ftable' = a.ftable
               /\ pipes' = a.pipes
               /\ pret' = [pret EXCEPT ![p] = [call |-> "sys_pipe", r |-> -1]]
               /\ UNCHANGED <<ofile, ufd, ppanic>>
       ELSE /\ ftable' = a.ftable
            /\ pipes' = a.pipes
            /\ ofile' = [ofile EXCEPT ![p] = d1.ofile]
            /\ ufd' = [ufd EXCEPT ![p] = <<d0.fd, d1.fd>>]
            /\ pret' = [pret EXCEPT ![p] = [call |-> "sys_pipe", r |-> 0]]
            /\ UNCHANGED ppanic
    /\ UNCHANGED <<pstate, pchan, ppc, pcall>>

\* filedup(f) on the table ft: f->ref++
filedup(ft, f) == [ft EXCEPT ![f].ref = @ + 1]

\* sys_dup(fd): -1 when fd is not an open descriptor (argfd) or when the
\* caller has no free descriptor; else the first free descriptor receives
\* the file and filedup takes a reference.
sys_dup(p, fd) ==
    LET f == ofile[p][fd]
        d == fdalloc(ofile[p], f) IN
    /\ PUp
    /\ pstate[p] = "RUNNING"
    /\ ppc[p] = "user"
    /\ IF f = 0 \/ d.fd < 0
       THEN /\ pret' = [pret EXCEPT ![p] = [call |-> "sys_dup", r |-> -1]]
            /\ UNCHANGED <<ftable, ofile, ppanic>>
       ELSE IF ftable[f].ref < 1
       THEN /\ ppanic' = "filedup"
            /\ ofile' = [ofile EXCEPT ![p] = d.ofile]
            /\ UNCHANGED <<ftable, pret>>
       ELSE /\ ofile' = [ofile EXCEPT ![p] = d.ofile]
            /\ ftable' = filedup(ftable, f)
            /\ pret' = [pret EXCEPT ![p] = [call |-> "sys_dup", r |-> d.fd]]
            /\ UNCHANGED ppanic
    /\ UNCHANGED <<pipes, pstate, pchan, ppc, pcall, ufd>>

\* fileread(f, addr, n) on an open FD_PIPE file: -1 when the file is not
\* readable, else piperead.
fileread(p, f, n) ==
    /\ PUp
    /\ pstate[p] = "RUNNING"
    /\ ppc[p] = "user"
    /\ ftable[f].ref >= 1 /\ ftable[f].type = "FD_PIPE"
    /\ IF ftable[f].readable = 0
       THEN /\ pret' = [pret EXCEPT ![p] = [call |-> "fileread", r |-> -1]]
            /\ UNCHANGED <<ppc, pcall>>
       ELSE /\ ppc' = [ppc EXCEPT ![p] = "piperead"]
            /\ pcall' = [pcall EXCEPT ![p] = [f |-> f, n |-> n, i |-> 0]]
            /\ pret' = [pret EXCEPT ![p] = [call |-> "pending", r |-> 0]]
    /\ UNCHANGED <<ftable, ofile, pipes, pstate, pchan, ufd, ppanic>>

\* piperead: sleep on &p->nread while the pipe is empty and the write end
\* is open; else copy up to n bytes, wakeup(&p->nwrite) and return the count.
piperead(p) ==
    /\ PUp
    /\ pstate[p] = "RUNNING"
    /\ ppc[p] = "piperead"
    /\ IF pipes.nread = pipes.nwrite /\ pipes.writeopen = 1
       THEN /\ pstate' = [pstate EXCEPT ![p] = "SLEEPING"]
            /\ pchan' = [pchan EXCEPT ![p] = ChanNread]
            /\ UNCHANGED <<pipes, ppc, pret>>
       ELSE LET k == Min(pcall[p].n, pipes.nwrite - pipes.nread) IN
            /\ pipes' = [pipes EXCEPT !.nread = @ + k]
            /\ pstate' = p_wakeup(pstate, ChanNwrite)
            /\ ppc' = [ppc EXCEPT ![p] = "user"]
            /\ pret' = [pret EXCEPT ![p] = [call |-> "piperead", r |-> k]]
            /\ UNCHANGED pchan
    /\ UNCHANGED <<ftable, ofile, pcall, ufd, ppanic>>

\* filewrite(f, addr, n) on an open FD_PIPE file: -1 when the file is not
\* writable, else pipewrite.
filewrite(p, f, n) ==
    /\ PUp
    /\ pstate[p] = "RUNNING"
    /\ ppc[p] = "user"
    /\ ftable[f].ref >= 1 /\ ftable[f].type = "FD_PIPE"
    /\ pipes.nwrite + n <= MaxPBytes
    /\ IF ftable[f].writable = 0
       THEN /\ pret' = [pret EXCEPT ![p] = [call |-> "filewrite", r |-> -1]]
            /\ UNCHANGED <<ppc, pcall>>
       ELSE /\ ppc' = [ppc EXCEPT ![p] = "pipewrite"]
            /\ pcall' = [pcall EXCEPT ![p] = [f |-> f, n |-> n, i |-> 0]]
            /\ pret' = [pret EXCEPT ![p] = [call |-> "pending", r |-> 0]]
    /\ UNCHANGED <<ftable, ofile, pipes, pstate, pchan, ufd, ppanic>>

\* a write loop that never finds the pipe full
pipewrite_all(p) == pcall[p].n - pcall[p].i

\* the bytes pipewrite's loop stores before it finds the pipe full
\* (nwrite == nread + PIPESIZE) or has stored all n
pipewrite_room(p) ==
    Min(pcall[p].n - pcall[p].i, PIPESIZE - (pipes.nwrite - pipes.nread))

\* pipewrite: write bytes while there is room; on a full pipe return -1
\* when the read end is closed, else wakeup(&p->nread) and sleep on
\* &p->nwrite; after the last byte wakeup(&p->nread) and return n.
pipewrite(p) ==
    LET k == pipewrite_room(p)
        i == pcall[p].i + k IN
    /\ PUp
    /\ pstate[p] = "RUNNING"
    /\ ppc[p] = "pipewrite"
    /\ pipes' = [pipes EXCEPT !.nwrite = @ + k]
    /\ pcall' = [pcall EXCEPT ![p].i = i]
    /\ IF i = pcall[p].n
       THEN /\ pstate' = p_wakeup(pstate, ChanNread)
            /\ ppc' = [ppc EXCEPT ![p] = "user"]
            /\ pret' = [pret EXCEPT ![p] = [call |-> "pipewrite", r |-> pcall[p].n]]
            /\ UNCHANGED pchan
       ELSE IF pipes.readopen = 0
       THEN /\ ppc' = [ppc EXCEPT ![p] = "user"]
            /\ pret' = [pret EXCEPT ![p] = [call |-> "pipewrite", r |-> -1]]
            /\ UNCHANGED <<pstate, pchan>>
       ELSE /\ pstate' = [p_wakeup(pstate, ChanNread) EXCEPT ![p] = "SLEEPING"]
            /\ pchan' = [pchan EXCEPT ![p] = ChanNwrite]
            /\ UNCHANGED <<ppc, pret>>
    /\ UNCHANGED <<ftable, ofile, ufd, ppanic>>

\* pipeclose(p, writable): clear the end's open flag and free the pipe when
\* both are closed; the function calls no wakeup.
pipeclose(writable) ==
    LET q == IF writable = 1 THEN [pipes EXCEPT !.writeopen = 0]
                             ELSE [pipes EXCEPT !.readopen = 0]
    IN IF q.readopen = 0 /\ q.writeopen = 0 THEN NoPipe ELSE q

\* fileclose(f) on an open FD_PIPE file, by the holder of a reference that
\* no process is using in fileread or filewrite.
fileclose_pipe(p, f) ==
    /\ PUp
    /\ pstate[p] = "RUNNING"
    /\ ppc[p] = "user"
    /\ ftable[f].type = "FD_PIPE"
    /\ \A q \in PProcs : ppc[q] /= "user" => pcall[q].f /= f
    /\ IF ftable[f].ref < 1
       THEN /\ ppanic' = "fileclose"
            /\ UNCHANGED <<ftable, pipes>>
       ELSE IF ftable[f].ref - 1 > 0
       THEN /\ ftable' = [ftable EXCEPT ![f].ref = @ - 1]
            /\ UNCHANGED <<pipes, ppanic>>
       ELSE /\ pipes' = pipeclose(ftable[f].writable)
            /\ ftable' = [ftable EXCEPT ![f].ref = 0, ![f].type = "FD_NONE"]
            /\ UNCHANGED ppanic
    /\ pret' = [pret EXCEPT ![p] = [call |-> "fileclose", r |-> 0]]
    /\ UNCHANGED <<ofile, pstate, pchan, ppc, pcall, ufd>>

\* scheduler and the return from sleep: a RUNNABLE process runs again and
\* sleep clears p->chan.
p_scheduler(p) ==
    /\ PUp
    /\ pstate[p] = "RUNNABLE"
    /\ pstate' = [pstate EXCEPT ![p] = "RUNNING"]
    /\ pchan' = [pchan EXCEPT ![p] = NoChan]
    /\ UNCHANGED <<ftable, ofile, pipes, ppc, pcall, pret, ufd, ppanic>>

(***************************************************************************)
(* --------- The process table (proc.c): fork, exit, wait, kill ---------- *)
(***************************************************************************)
NPtProcs == 3      \* slots of ptable.proc
NPtCpus == 2       \* CPUs running processes of the table
NPtFiles == 2      \* slots of the open-file table used by these processes
MaxPid == 4        \* last pid that allocproc hands out
MaxPtKills == 1    \* kill calls

VARIABLES
    pt_proc,     \* ptable.proc[]: [state, pid, parent, kstack, pgdir, killed, chan]
    pt_pc,       \* where each process is inside fork, exit or wait
    pt_np,       \* fork's np of each process
    pt_ofile,    \* proc->ofile (one descriptor): 0 or a file
    pt_fref,     \* file->ref of the files
    nextpid,
    pt_ret,      \* the last system call return: [call, val]
    pt_hist,     \* history of each pid: [forker, n, slot, by], who forked it,
                 \* how often wait returned it, from which slot, to whom
    pt_kills,
    pt_panic

ptVars == <<pt_proc, pt_pc, pt_np, pt_ofile, pt_fref, nextpid, pt_ret,
            pt_hist, pt_kills, pt_panic>>

PtSlots == 1..NPtProcs
PtFiles == 1..NPtFiles
Pids == 1..MaxPid
initproc == 1
NoRet == [call |-> "none", val |-> 0]
UnusedProc == [state |-> "UNUSED", pid |-> 0, parent |-> 0, kstack |-> FALSE,
               pgdir |-> FALSE, killed |-> FALSE, chan |-> 0]

\* The state after userinit and the first scheduling of init: slot 1 runs
\* initcode with pid 1 and the console open.
PtInit ==
    /\ pt_proc = [s \in PtSlots |->
                    IF s = initproc
                    THEN [state |-> "RUNNING", pid |-> 1, parent |-> 0,
                          kstack |-> TRUE, pgdir |-> TRUE, killed |-> FALSE,
                          chan |-> 0]
                    ELSE UnusedProc]
    /\ pt_pc = [s \in PtSlots |-> "user"]
    /\ pt_np = [s \in PtSlots |-> 0]
    /\ pt_ofile = [s \in PtSlots |-> IF s = initproc THEN 1 ELSE 0]
    /\ pt_fref = [f \in PtFiles |-> IF f = 1 THEN 1 ELSE 0]
    /\ nextpid = 2
    /\ pt_ret = [s \in PtSlots |-> NoRet]
    /\ pt_hist = [i \in Pids |-> [forker |-> 0, n |-> 0, slot |-> 0, by |-> 0]]
    /\ pt_kills = 0
    /\ pt_panic = NoPanic

PtUp == pt_panic = NoPanic
\* the process of slot p executes in the kernel at l
PtAt(p, l) == PtUp /\ pt_proc[p].state = "RUNNING" /\ pt_pc[p] = l
\* the first slot of S in the order of the scans over ptable.proc, 0 if none
pt_first(S) == IF S = {} THEN 0 ELSE CHOOSE s \in S : \A t \in S : s <= t

\* wakeup1(chan) on the table tab; chan is a struct proc*
pt_wakeup1(tab, chan) ==
    [s \in PtSlots |->
        IF tab[s].state = "SLEEPING" /\ tab[s].chan = chan
        THEN [tab[s] EXCEPT !.state = "RUNNABLE"]
        ELSE tab[s]]

\* scheduler: a CPU that runs no process switches to a RUNNABLE one
pt_scheduler(p) ==
    /\ PtUp
    /\ pt_proc[p].state = "RUNNABLE"
    /\ Cardinality({s \in PtSlots : pt_proc[s].state = "RUNNING"}) < NPtCpus
    /\ pt_proc' = [pt_proc EXCEPT ![p].state = "RUNNING"]
    /\ UNCHANGED <<pt_pc, pt_np, pt_ofile, pt_fref, nextpid, pt_ret, pt_hist,
                   pt_kills, pt_panic>>

\* trap: a system call of a process whose killed flag is set calls exit
PtUser(p) == PtAt(p, "user") /\ ~pt_proc[p].killed

\* fork, allocproc under ptable.lock: the first UNUSED slot becomes EMBRYO
\* with pid = nextpid++; without one, fork returns -1.
fork_allocproc(p) ==
    LET np == pt_first({s \in PtSlots : pt_proc[s].state = "UNUSED"}) IN
    /\ PtUser(p)
    /\ nextpid <= MaxPid
    /\ IF np = 0
       THEN /\ pt_ret' = [pt_ret EXCEPT ![p] = [call |-> "fork", val |-> -1]]
            /\ UNCHANGED <<pt_proc, pt_pc, pt_np, nextpid>>
       ELSE /\ pt_proc' = [pt_proc EXCEPT ![np].state = "EMBRYO", ![np].pid = nextpid]
            /\ nextpid' = nextpid + 1
            /\ pt_np' = [pt_np EXCEPT ![p] = np]
            /\ pt_pc' = [pt_pc EXCEPT ![p] = "fork_kalloc"]
            /\ pt_ret' = [pt_ret EXCEPT ![p] = NoRet]
    /\ UNCHANGED <<pt_ofile, pt_fref, pt_hist, pt_kills, pt_panic>>

\* fork, the rest of allocproc and copyuvm: when kalloc or copyuvm fails
\* (ok = FALSE) the slot goes back to UNUSED and fork returns -1; else the
\* child gets the parent pointer and a reference to each open file.
fork_kalloc(p, ok) ==
    LET np == pt_np[p] IN
    /\ PtAt(p, "fork_kalloc")
    /\ IF ok
       THEN /\ pt_proc' = [pt_proc EXCEPT ![np].kstack = TRUE]
            /\ pt_pc' = [pt_pc EXCEPT ![p] = "fork_copyuvm"]
            /\ UNCHANGED pt_ret
       ELSE /\ pt_proc' = [pt_proc EXCEPT ![np].state = "UNUSED"]
            /\ pt_pc' = [pt_pc EXCEPT ![p] = "user"]
            /\ pt_ret' = [pt_ret EXCEPT ![p] = [call |-> "fork", val |-> -1]]
    /\ UNCHANGED <<pt_np, pt_ofile, pt_fref, nextpid, pt_hist, pt_kills, pt_panic>>

fork_copyuvm(p, ok) ==
    LET np == pt_np[p] IN
    /\ PtAt(p, "fork_copyuvm")
    /\ IF ok
       THEN /\ pt_proc' = [pt_proc EXCEPT ![np].pgdir = TRUE, ![np].parent = p]
            /\ pt_ofile' = [pt_ofile EXCEPT ![np] = pt_ofile[p]]
            /\ pt_fref' = IF pt_ofile[p] = 0 THEN pt_fref
                          ELSE [pt_fref EXCEPT ![pt_ofile[p]] = @ + 1]
            /\ pt_pc' = [pt_pc EXCEPT ![p] = "fork_runnable"]
            /\ UNCHANGED pt_ret
       ELSE /\ pt_proc' = [pt_proc EXCEPT ![np].kstack = FALSE, ![np].state = "UNUSED"]
            /\ pt_pc' = [pt_pc EXCEPT ![p] = "user"]
            /\ pt_ret' = [pt_ret EXCEPT ![p] = [call |-> "fork", val |-> -1]]
            /\ UNCHANGED <<pt_ofile, pt_fref>>
    /\ UNCHANGED <<pt_np, nextpid, pt_hist, pt_kills, pt_panic>>

\* fork, the end: np->state = RUNNABLE under ptable.lock; fork returns the
\* child's pid; the child starts in user space (forkret, trapret).
fork_runnable(p) ==
    LET np == pt_np[p] IN
    /\ PtAt(p, "fork_runnable")
    /\ pt_proc' = [pt_proc EXCEPT ![np].state = "RUNNABLE"]
    /\ pt_pc' = [pt_pc EXCEPT ![p] = "user", ![np] = "user"]
    /\ pt_ret' = [pt_ret EXCEPT ![p] = [call |-> "fork", val |-> pt_proc[np].pid],
                                ![np] = [call |-> "fork", val |-> 0]]
    /\ pt_hist' = [pt_hist EXCEPT ![pt_proc[np].pid].forker = p]
    /\ UNCHANGED <<pt_np, pt_ofile, pt_fref, nextpid, pt_kills, pt_panic>>

\* exit, up to acquire(&ptable.lock): init must not exit; fileclose of each
\* open file and iput of cwd.  The log is idle here, so neither sleeps.
exit_close(p) ==
    /\ PtAt(p, "user")
    /\ IF p = initproc
       THEN /\ pt_panic' = "init exiting"
            /\ UNCHANGED <<pt_pc, pt_ofile, pt_fref>>
       ELSE /\ pt_ofile' = [pt_ofile EXCEPT ![p] = 0]
            /\ pt_fref' = IF pt_ofile[p] = 0 THEN pt_fref
                          ELSE [pt_fref EXCEPT ![pt_ofile[p]] = @ - 1]
            /\ pt_pc' = [pt_pc EXCEPT ![p] = "exit_zombie"]
            /\ UNCHANGED pt_panic
    /\ UNCHANGED <<pt_proc, pt_np, nextpid, pt_ret, pt_hist, pt_kills>>

\* an exit that leaves its children with their parent
exit_zombie_orphans(p) ==
    LET t1 == pt_wakeup1(pt_proc, pt_proc[p].parent) IN
    /\ PtAt(p, "exit_zombie")
    /\ pt_proc' = [t1 EXCEPT ![p].state = "ZOMBIE"]
    /\ pt_pc' = [pt_pc EXCEPT ![p] = "zombie"]
    /\ UNCHANGED <<pt_np, pt_ofile, pt_fref, nextpid, pt_ret, pt_hist,
                   pt_kills, pt_panic>>

\* exit under ptable.lock: wakeup1(parent); every child passes to initproc,
\* which is woken when the child is a ZOMBIE; then ZOMBIE and sched.
exit_zombie(p) ==
    LET kids == {s \in PtSlots : pt_proc[s].parent = p}
        t1 == pt_wakeup1(pt_proc, pt_proc[p].parent)
        t2 == [s \in PtSlots |-> IF s \in kids THEN [t1[s] EXCEPT !.parent = initproc]
                                 ELSE t1[s]]
        t3 == IF \E s \in kids : pt_proc[s].state = "ZOMBIE"
              THEN pt_wakeup1(t2, initproc) ELSE t2
    IN
    /\ PtAt(p, "exit_zombie")
    /\ pt_proc' = [t3 EXCEPT ![p].state = "ZOMBIE"]
    /\ pt_pc' = [pt_pc EXCEPT ![p] = "zombie"]
    /\ UNCHANGED <<pt_np, pt_ofile, pt_fref, nextpid, pt_ret, pt_hist,
                   pt_kills, pt_panic>>

\* a wait that frees the kernel stack and the page table but leaves the slot
\* a ZOMBIE child of its parent
wait_reap_zombie(pr) ==
    [pr EXCEPT !.kstack = FALSE, !.pgdir = FALSE]

\* a wait that does not free the kernel stack
wait_reap_kstack(pr) ==
    [pr EXCEPT !.pgdir = FALSE, !.pid = 0, !.parent = 0, !.killed = FALSE,
               !.state = "UNUSED"]

\* wait, the ZOMBIE branch: kfree(p->kstack), freevm(p->pgdir), and the
\* slot becomes UNUSED
wait_reap(pr) ==
    [pr EXCEPT !.kstack = FALSE, !.pgdir = FALSE, !.pid = 0, !.parent = 0,
               !.killed = FALSE, !.state = "UNUSED"]

\* wait under ptable.lock, one pass of the for(;;) loop, entered from the
\* system call or after sleep returned: the scan returns at the first ZOMBIE
\* child; without children, or killed, wait returns -1; else
\* sleep(curproc, &ptable.lock).
wait(p) ==
    LET kids == {s \in PtSlots : pt_proc[s].parent = p}
        z == pt_first({s \in kids : pt_proc[s].state = "ZOMBIE"})
        me == [pt_proc[p] EXCEPT !.chan = 0]
    IN
    /\ PtUser(p) \/ PtAt(p, "wait_sleep")
    /\ IF z /= 0
       THEN /\ pt_proc' = [pt_proc EXCEPT ![p] = me, ![z] = wait_reap(@)]
            /\ pt_ret' = [pt_ret EXCEPT ![p] = [call |-> "wait", val |-> pt_proc[z].pid]]
            /\ pt_hist' = [pt_hist EXCEPT ![pt_proc[z].pid] =
                               [@ EXCEPT !.n = @ + 1, !.slot = z, !.by = p]]
            /\ pt_pc' = [pt_pc EXCEPT ![p] = "user"]
       ELSE IF kids = {} \/ pt_proc[p].killed
       THEN /\ pt_proc' = [pt_proc EXCEPT ![p] = me]
            /\ pt_ret' = [pt_ret EXCEPT ![p] = [call |-> "wait", val |-> -1]]
            /\ pt_pc' = [pt_pc EXCEPT ![p] = "user"]
            /\ UNCHANGED pt_hist
       ELSE /\ pt_proc' = [pt_proc EXCEPT ![p].state = "SLEEPING", ![p].chan = p]
            /\ pt_pc' = [pt_pc EXCEPT ![p] = "wait_sleep"]
            /\ pt_ret' = [pt_ret EXCEPT ![p] = NoRet]
            /\ UNCHANGED pt_hist
    /\ UNCHANGED <<pt_np, pt_ofile, pt_fref, nextpid, pt_kills, pt_panic>>

\* kill(pid) by a running process: the first slot with that pid gets killed
\* set and is made RUNNABLE when it sleeps; -1 without such a slot.
pt_kill(p, pid) ==
    LET t == pt_first({s \in PtSlots : pt_proc[s].pid = pid}) IN
    /\ PtUser(p)
    /\ pt_kills < MaxPtKills
    /\ pt_kills' = pt_kills + 1
    /\ IF t = 0
       THEN /\ pt_ret' = [pt_ret EXCEPT ![p] = [call |-> "kill", val |-> -1]]
            /\ UNCHANGED pt_proc
       ELSE /\ pt_proc' = [pt_proc EXCEPT ![t].killed = TRUE,
                              ![t].state = IF @ = "SLEEPING" THEN "RUNNABLE" ELSE @]
            /\ pt_ret' = [pt_ret EXCEPT ![p] = [call |-> "kill", val |-> 0]]
    /\ UNCHANGED <<pt_pc, pt_np, pt_ofile, pt_fref, nextpid, pt_hist, pt_panic>>

\* a timer interrupt of a process in user mode: trap calls yield
pt_yield(p) ==
    /\ PtAt(p, "user")
    /\ pt_proc' = [pt_proc EXCEPT ![p].state = "RUNNABLE"]
    /\ UNCHANGED <<pt_pc, pt_np, pt_ofile, pt_fref, nextpid, pt_ret, pt_hist,
                   pt_kills, pt_panic>>

(***************************************************************************)
(* --------- Closing an unlinked file (file.c, fs.c, log.c): ------------- *)
(* --------- fileclose, iput and the commit, with the spinlocks held ----- *)
(***************************************************************************)
NFcProcs == 2      \* processes, each on its own CPU, that share one open file

VARIABLES
    fc_pc,       \* per process: where it is inside sys_close or sys_unlink
    fc_call,     \* per process: the system call it is in
    fc_state,    \* p->state
    fc_chan,     \* p->chan
    fc_ncli,     \* per CPU: spinlocks held outside sleep's own lock (cpu->ncli)
    fc_ftable,   \* holder of ftable.lock, 0 when free
    fc_ilock,    \* holder of the inode's sleeplock, 0 when free
    fc_file,     \* the open-file slot: [ref, type]
    fc_ofile,    \* per process: its descriptor refers to the file
    fc_ip,       \* the in-memory inode: [ref, valid, nlink, type]
    fc_cache,    \* buffer-cache image of the metadata: [dirent, nlink, type, bit]
    fc_disk,     \* the same metadata at its home location on disk
    fc_log,      \* [outstanding, committing, blocks]: blocks in log.lh
    fc_ret,      \* per process, its last close: [done, last, nlink], whether it
                 \* returned, dropped the last reference, and ip->nlink at entry
    fc_panic

fcVars == <<fc_pc, fc_call, fc_state, fc_chan, fc_ncli, fc_ftable, fc_ilock,
            fc_file, fc_ofile, fc_ip, fc_cache, fc_disk, fc_log, fc_ret, fc_panic>>

FcProcs == 1..NFcProcs
FcBlocks == {"dir", "inode", "bitmap"}
NoClose == [done |-> FALSE, last |-> FALSE, nlink |-> 1]

\* One file of one data block, linked in the root directory and opened once;
\* after fork both processes hold the descriptor (f->ref = 2, ip->ref = 1).
FcInit ==
    /\ fc_pc = [p \in FcProcs |-> "user"]
    /\ fc_call = [p \in FcProcs |-> "none"]
    /\ fc_state = [p \in FcProcs |-> "RUNNING"]
    /\ fc_chan = [p \in FcProcs |-> "none"]
    /\ fc_ncli = [p \in FcProcs |-> 0]
    /\ fc_ftable = 0
    /\ fc_ilock = 0
    /\ fc_file = [ref |-> NFcProcs, type |-> "FD_INODE"]
    /\ fc_ofile = [p \in FcProcs |-> TRUE]
    /\ fc_ip = [ref |-> 1, valid |-> TRUE, nlink |-> 1, type |-> T_FILE]
    /\ fc_cache = [dirent |-> TRUE, nlink |-> 1, type |-> T_FILE, bit |-> TRUE]
    /\ fc_disk = [dirent |-> TRUE, nlink |-> 1, type |-> T_FILE, bit |-> TRUE]
    /\ fc_log = [outstanding |-> 0, committing |-> 0, blocks |-> {}]
    /\ fc_ret = [p \in FcProcs |-> NoClose]
    /\ fc_panic = NoPanic

FcUp == fc_panic = NoPanic
\* p executes at l (a RUNNABLE process is picked by the scheduler of its CPU)
FcAt(p, l) == FcUp /\ fc_state[p] /= "SLEEPING" /\ fc_pc[p] = l
fc_wakeup(st, ch, chan) ==
    [p \in FcProcs |-> IF st[p] = "SLEEPING" /\ ch[p] = chan THEN "RUNNABLE" ELSE st[p]]

\* sched's test, reached from sleep(chan, lk): sleep has taken ptable.lock
\* and released lk, so ncli must be 1
fc_sched_ok(p) == fc_ncli[p] + 1 = 1

\* sleep(chan, lk) up to the swtch of sched
fc_sleep(p, chan) ==
    IF fc_sched_ok(p)
    THEN /\ fc_state' = [fc_state EXCEPT ![p] = "SLEEPING"]
         /\ fc_chan' = [fc_chan EXCEPT ![p] = chan]
         /\ UNCHANGED fc_panic
    ELSE /\ fc_panic' = "sched locks"
         /\ UNCHANGED <<fc_state, fc_chan>>

\* where end_op returns to
fc_after_op(p) == IF fc_call[p] = "close" THEN "fileclose_rel" ELSE "user"

\* sys_close and fileclose up to begin_op: under ftable.lock --f->ref; when
\* references remain, release and return; else keep ftable.lock.
fc_fileclose(p) ==
    /\ FcAt(p, "user")
    /\ fc_ofile[p]
    /\ fc_ftable = 0
    /\ fc_ofile' = [fc_ofile EXCEPT ![p] = FALSE]
    /\ fc_file' = [fc_file EXCEPT !.ref = @ - 1]
    /\ fc_state' = [fc_state EXCEPT ![p] = "RUNNING"]
    /\ IF fc_file.ref - 1 > 0
       THEN /\ fc_ret' = [fc_ret EXCEPT ![p] = [done |-> TRUE, last |-> FALSE,
                                                nlink |-> fc_ip.nlink]]
            /\ UNCHANGED <<fc_pc, fc_call, fc_ncli, fc_ftable>>
       ELSE /\ fc_ftable' = p
            /\ fc_ncli' = [fc_ncli EXCEPT ![p] = @ + 1]
            /\ fc_call' = [fc_call EXCEPT ![p] = "close"]
            /\ fc_pc' = [fc_pc EXCEPT ![p] = "begin_op"]
            /\ fc_ret' = [fc_ret EXCEPT ![p] = [done |-> FALSE, last |-> TRUE,
                                                nlink |-> fc_ip.nlink]]
    /\ UNCHANGED <<fc_chan, fc_ilock, fc_ip, fc_cache, fc_disk, fc_log, fc_panic>>

\* sys_unlink enters its transaction
fc_sys_unlink(p) ==
    /\ FcAt(p, "user")
    /\ fc_call' = [fc_call EXCEPT ![p] = "unlink"]
    /\ fc_pc' = [fc_pc EXCEPT ![p] = "begin_op"]
    /\ fc_state' = [fc_state EXCEPT ![p] = "RUNNING"]
    /\ UNCHANGED <<fc_chan, fc_ncli, fc_ftable, fc_ilock, fc_file, fc_ofile, fc_ip,
                   fc_cache, fc_disk, fc_log, fc_ret, fc_panic>>

\* begin_op
fc_begin_op(p) ==
    /\ FcAt(p, "begin_op")
    /\ IF \/ fc_log.committing = 1
          \/ Cardinality(fc_log.blocks) + (fc_log.outstanding + 1) * MAXOPBLOCKS > LOGSIZE
       THEN /\ fc_sleep(p, "log")
            /\ UNCHANGED <<fc_log, fc_pc>>
       ELSE /\ fc_log' = [fc_log EXCEPT !.outstanding = @ + 1]
            /\ fc_pc' = [fc_pc EXCEPT ![p] = IF fc_call[p] = "close" THEN "iput"
                                             ELSE "unlink"]
            /\ fc_state' = [fc_state EXCEPT ![p] = "RUNNING"]
            /\ UNCHANGED <<fc_chan, fc_panic>>
    /\ UNCHANGED <<fc_call, fc_ncli, fc_ftable, fc_ilock, fc_file, fc_ofile, fc_ip,
                   fc_cache, fc_disk, fc_ret>>

\* sys_unlink inside the transaction: without the directory entry it goes
\* to end_op; else ilock(ip), the entry is cleared with writei, nlink-- and
\* iupdate (log_write of the directory and inode blocks).
fc_unlink(p) ==
    /\ FcAt(p, "unlink")
    /\ fc_ilock = 0
    /\ IF ~fc_cache.dirent
       THEN /\ fc_pc' = [fc_pc EXCEPT ![p] = "end_op"]
            /\ UNCHANGED <<fc_ilock, fc_ip, fc_cache, fc_log>>
       ELSE /\ fc_ilock' = p
            /\ fc_ip' = [fc_ip EXCEPT !.ref = @ + 1, !.nlink = @ - 1]
            /\ fc_cache' = [fc_cache EXCEPT !.dirent = FALSE, !.nlink = @ - 1]
            /\ fc_log' = [fc_log EXCEPT !.blocks = @ \cup {"dir", "inode"}]
            /\ fc_pc' = [fc_pc EXCEPT ![p] = "unlink_iput"]
    /\ UNCHANGED <<fc_call, fc_state, fc_chan, fc_ncli, fc_ftable, fc_file, fc_ofile,
                   fc_disk, fc_ret, fc_panic>>

\* the inode after iput found valid, nlink == 0 and ref == 1: itrunc, type = 0,
\* iupdate, valid = 0; then ref--
fc_iput_ip(ip) ==
    IF ip.valid /\ ip.nlink = 0 /\ ip.ref = 1
    THEN [ip EXCEPT !.type = 0, !.valid = FALSE, !.ref = @ - 1]
    ELSE [ip EXCEPT !.ref = @ - 1]
fc_iput_cache(ip, c) ==
    IF ip.valid /\ ip.nlink = 0 /\ ip.ref = 1
    THEN [c EXCEPT !.bit = FALSE, !.type = 0]
    ELSE c
fc_iput_blocks(ip, b) ==
    IF ip.valid /\ ip.nlink = 0 /\ ip.ref = 1 THEN b \cup {"bitmap", "inode"} ELSE b

\* sys_unlink: iunlockput(ip)
fc_unlink_iput(p) ==
    /\ FcAt(p, "unlink_iput")
    /\ fc_ilock' = 0
    /\ fc_state' = fc_wakeup(fc_state, fc_chan, "ilock")
    /\ fc_ip' = fc_iput_ip(fc_ip)
    /\ fc_cache' = fc_iput_cache(fc_ip, fc_cache)
    /\ fc_log' = [fc_log EXCEPT !.blocks = fc_iput_blocks(fc_ip, @)]
    /\ fc_pc' = [fc_pc EXCEPT ![p] = "end_op"]
    /\ UNCHANGED <<fc_call, fc_chan, fc_ncli, fc_ftable, fc_file, fc_ofile, fc_disk,
                   fc_ret, fc_panic>>

\* fileclose: iput(f->ip).  acquiresleep sleeps while the inode is locked;
\* itrunc and iupdate read the bitmap and inode blocks with bread, which
\* sleeps in iderw unless the blocks are cached (hit).
fc_iput(p, hit) ==
    /\ FcAt(p, "iput")
    /\ IF fc_ilock /= 0
       THEN /\ fc_sleep(p, "ilock")
            /\ UNCHANGED <<fc_ip, fc_cache, fc_log, fc_pc>>
       ELSE IF fc_ip.valid /\ fc_ip.nlink = 0 /\ fc_ip.ref = 1 /\ ~hit
       THEN /\ fc_sleep(p, "disk")
            /\ UNCHANGED <<fc_ip, fc_cache, fc_log, fc_pc>>
       ELSE /\ fc_ip' = fc_iput_ip(fc_ip)
            /\ fc_cache' = fc_iput_cache(fc_ip, fc_cache)
            /\ fc_log' = [fc_log EXCEPT !.blocks = fc_iput_blocks(fc_ip, @)]
            /\ fc_pc' = [fc_pc EXCEPT ![p] = "end_op"]
            /\ fc_state' = [fc_state EXCEPT ![p] = "RUNNING"]
            /\ UNCHANGED <<fc_chan, fc_panic>>
    /\ UNCHANGED <<fc_call, fc_ncli, fc_ftable, fc_ilock, fc_file, fc_ofile, fc_disk,
                   fc_ret>>

\* end_op up to commit
fc_end_op(p) ==
    /\ FcAt(p, "end_op")
    /\ IF fc_log.committing = 1
       THEN /\ fc_panic' = "log.committing"
            /\ UNCHANGED <<fc_log, fc_pc, fc_state>>
       ELSE IF fc_log.outstanding - 1 = 0
       THEN /\ fc_log' = [fc_log EXCEPT !.outstanding = 0, !.committing = 1]
            /\ fc_pc' = [fc_pc EXCEPT ![p] = "commit"]
            /\ UNCHANGED <<fc_state, fc_panic>>
       ELSE /\ fc_log' = [fc_log EXCEPT !.outstanding = @ - 1]
            /\ fc_state' = fc_wakeup(fc_state, fc_chan, "log")
            /\ fc_pc' = [fc_pc EXCEPT ![p] = fc_after_op(p)]
            /\ UNCHANGED fc_panic
    /\ UNCHANGED <<fc_call, fc_chan, fc_ncli, fc_ftable, fc_ilock, fc_file, fc_ofile,
                   fc_ip, fc_cache, fc_disk, fc_ret>>

\* commit: nothing to do with an empty log.lh; else write_log reaches iderw
\* (bread of a log block, bwrite), which sleeps until the disk interrupt.
fc_commit(p) ==
    /\ FcAt(p, "commit")
    /\ IF fc_log.blocks = {}
       THEN /\ fc_pc' = [fc_pc EXCEPT ![p] = "end_op_clear"]
            /\ UNCHANGED <<fc_state, fc_chan, fc_panic>>
       ELSE /\ fc_sleep(p, "disk")
            /\ fc_pc' = [fc_pc EXCEPT ![p] = "install_trans"]
    /\ UNCHANGED <<fc_call, fc_ncli, fc_ftable, fc_ilock, fc_file, fc_ofile, fc_ip,
                   fc_cache, fc_disk, fc_log, fc_ret>>

\* ideintr: the request is finished, wakeup(b)
fc_ideintr ==
    /\ FcUp
    /\ \E p \in FcProcs : fc_state[p] = "SLEEPING" /\ fc_chan[p] = "disk"
    /\ fc_state' = fc_wakeup(fc_state, fc_chan, "disk")
    /\ UNCHANGED <<fc_pc, fc_call, fc_chan, fc_ncli, fc_ftable, fc_ilock, fc_file,
                   fc_ofile, fc_ip, fc_cache, fc_disk, fc_log, fc_ret, fc_panic>>

\* commit after its disk writes: install_trans has copied the logged blocks
\* to their home locations and log.lh.n = 0
fc_install_trans(p) ==
    /\ FcAt(p, "install_trans")
    /\ fc_disk' = [dirent |-> IF "dir" \in fc_log.blocks THEN fc_cache.dirent
                              ELSE fc_disk.dirent,
                   nlink |-> IF "inode" \in fc_log.blocks THEN fc_cache.nlink
                             ELSE fc_disk.nlink,
                   type |-> IF "inode" \in fc_log.blocks THEN fc_cache.type
                            ELSE fc_disk.type,
                   bit |-> IF "bitmap" \in fc_log.blocks THEN fc_cache.bit
                           ELSE fc_disk.bit]
    /\ fc_log' = [fc_log EXCEPT !.blocks = {}]
    /\ fc_pc' = [fc_pc EXCEPT ![p] = "end_op_clear"]
    /\ fc_state' = [fc_state EXCEPT ![p] = "RUNNING"]
    /\ UNCHANGED <<fc_call, fc_chan, fc_ncli, fc_ftable, fc_ilock, fc_file, fc_ofile,
                   fc_ip, fc_cache, fc_ret, fc_panic>>

\* end_op after commit: log.committing = 0, wakeup(&log)
fc_end_op_clear(p) ==
    /\ FcAt(p, "end_op_clear")
    /\ fc_log' = [fc_log EXCEPT !.committing = 0]
    /\ fc_state' = fc_wakeup(fc_state, fc_chan, "log")
    /\ fc_pc' = [fc_pc EXCEPT ![p] = fc_after_op(p)]
    /\ fc_call' = [fc_call EXCEPT ![p] = IF @ = "close" THEN @ ELSE "none"]
    /\ UNCHANGED <<fc_chan, fc_ncli, fc_ftable, fc_ilock, fc_file, fc_ofile, fc_ip,
                   fc_cache, fc_disk, fc_ret, fc_panic>>

\* fileclose after end_op: f->type = FD_NONE, release(&ftable.lock)
fc_fileclose_rel(p) ==
    /\ FcAt(p, "fileclose_rel")
    /\ fc_file' = [fc_file EXCEPT !.type = "FD_NONE"]
    /\ fc_ftable' = 0
    /\ fc_ncli' = [fc_ncli EXCEPT ![p] = @ - 1]
    /\ fc_pc' = [fc_pc EXCEPT ![p] = "user"]
    /\ fc_call' = [fc_call EXCEPT ![p] = "none"]
    /\ fc_ret' = [fc_ret EXCEPT ![p].done = TRUE]
    /\ UNCHANGED <<fc_state, fc_chan, fc_ilock, fc_ofile, fc_ip, fc_cache, fc_disk,
                   fc_log, fc_panic>>

(***************************************************************************)
(* --------- Reading and writing an inode file (file.c, fs.c): ----------- *)
(* --------- filewrite, fileread, writei, readi over size and offset ----- *)
(***************************************************************************)
BSIZE == 512
NDIRECT == 12
NINDIRECT == BSIZE \div 4
MAXFILE == NDIRECT + NINDIRECT

\* A uint is kept as the int with the same 32 bits: 0 .. IntMax stand for
\* themselves and -1 .. -IntMax - 1 for 2^32 - 1 .. 2^31.
IntMax == 2147483647

\* sizes of the file at the start, counted back from MAXFILE * BSIZE, and
\* the byte counts passed to write and to read (as ints)
FwBack == {0, 1, 1536, 1537}
FwNs == {0, 1, 1536, 1537}
FwRdNs == {0, 1, 1536, 1537, -1, -1536, -IntMax - 1}
MaxFwCalls == 3     \* read and write calls

VARIABLES
    fw_size,     \* ip->size
    fw_off,      \* f->off
    fw_last,     \* the last filewrite: [called, n, off0, size0, r, size1, stored]
    fw_rd,       \* the last fileread: [called, n, off0, size0, ret, r, bn]
    fw_panic,    \* the panic message once the kernel has panicked
    fw_calls

fwVars == <<fw_size, fw_off, fw_last, fw_rd, fw_panic, fw_calls>>

\* A regular file of some size, open for reading and writing, that has
\* been read or written up to f->off
FwInit ==
    /\ fw_size \in {MAXFILE * BSIZE - k : k \in FwBack}
    /\ fw_off \in {MAXFILE * BSIZE - k : k \in FwBack}
    /\ fw_off <= fw_size
    /\ fw_calls = 0
    /\ fw_last = [called |-> FALSE, n |-> 0, off0 |-> 0, size0 |-> 0, r |-> 0,
                  size1 |-> 0, stored |-> 0]
    /\ fw_rd = [called |-> FALSE, n |-> 0, off0 |-> 0, size0 |-> 0, ret |-> FALSE,
                r |-> 0, bn |-> -1]
    /\ fw_panic = NoPanic

\* a + b on uint: the sum modulo 2^32
uadd(a, b) ==
    IF a >= 0 /\ b >= 0
    THEN IF a <= IntMax - b THEN a + b ELSE (a - IntMax - 1) + (b - IntMax - 1)
    ELSE IF a < 0 /\ b < 0
    THEN IF a >= (-IntMax - 1) - b THEN a + b ELSE (a + IntMax + 1) + (b + IntMax + 1)
    ELSE a + b

\* a < b on uint
ult(a, b) == IF (a < 0) = (b < 0) THEN a < b ELSE b < 0

\* readi(ip, dst, off, n) on a regular file of size bytes, off <= MAXFILE *
\* BSIZE, all three uint: [r, bn, panics].  The tests are off > ip->size
\* (n < 0 is never true of a uint) and off + n > ip->size, the sum taken
\* modulo 2^32.  r is the int returned, -1 or the count n after the clamp;
\* bn is the highest file block index the loop passes to bmap (-1 when the
\* loop does not run), at most MAXFILE, where bmap panics; panics are the
\* panics the loop can end in instead of returning: bmap's at index MAXFILE
\* and, for an unallocated block past the end of the file, that of
\* balloc's log_write outside a transaction.
readi(size, off, n) ==
    IF ult(size, off) THEN [r |-> -1, bn |-> -1, panics |-> {}]
    ELSE LET n1 == IF ult(size, uadd(off, n)) THEN size - off ELSE n
             room == MAXFILE * BSIZE - off
             blocks == (size + BSIZE - 1) \div BSIZE
         IN IF n1 = 0 THEN [r |-> 0, bn |-> -1, panics |-> {}]
            ELSE IF ult(room, n1)
            THEN [r |-> n1, bn |-> MAXFILE,
                  panics |-> {"bmap: out of range"} \cup
                             (IF blocks < MAXFILE
                              THEN {"log_write outside of trans"} ELSE {})]
            ELSE [r |-> n1, bn |-> (off + n1 - 1) \div BSIZE, panics |-> {}]

\* writei(ip, src, off, n) on a file of size bytes: [r, size, stored], the
\* result, ip->size afterwards and the bytes copied into the file's blocks
writei(size, off, n) ==
    IF off > size \/ off + n < off
    THEN [r |-> -1, size |-> size, stored |-> 0]
    ELSE IF off + n > MAXFILE * BSIZE
    THEN [r |-> -1, size |-> size, stored |-> 0]
    ELSE [r |-> n, size |-> IF n > 0 /\ off + n > size THEN off + n ELSE size,
          stored |-> n]

\* the bytes filewrite passes to one writei: ((MAXOPBLOCKS-1-1-2)/2)*512
filewrite_max == ((MAXOPBLOCKS - 1 - 1 - 2) \div 2) * 512

\* filewrite's loop from i on: [i, off, size, stored] when it ends
RECURSIVE filewrite_loop(_, _, _, _, _)
filewrite_loop(n, i, off, size, stored) ==
    IF i >= n
    THEN [i |-> i, off |-> off, size |-> size, stored |-> stored]
    ELSE LET n1 == Min(n - i, filewrite_max)
             w == writei(size, off, n1)
         IN IF w.r < 0
            THEN [i |-> i, off |-> off, size |-> size, stored |-> stored]
            ELSE filewrite_loop(n, i + w.r, off + w.r, w.size, stored + w.stored)

\* filewrite(f, addr, n) on the FD_INODE file: i == n ? n : -1
filewrite_inode(n) ==
    LET e == filewrite_loop(n, 0, fw_off, fw_size, 0) IN
    /\ fw_panic = NoPanic
    /\ fw_calls < MaxFwCalls
    /\ fw_calls' = fw_calls + 1
    /\ fw_off' = e.off
    /\ fw_size' = e.size
    /\ fw_last' = [called |-> TRUE, n |-> n, off0 |-> fw_off, size0 |-> fw_size,
                   r |-> IF e.i = n THEN n ELSE -1, size1 |-> e.size,
                   stored |-> e.stored]
    /\ UNCHANGED <<fw_rd, fw_panic>>

\* fileread(f, addr, n) on the FD_INODE file, n the int that sys_read
\* fetched: readi takes it as a uint; f->off advances when r > 0
fileread_inode(n) ==
    LET e == readi(fw_size, fw_off, n) IN
    /\ fw_panic = NoPanic
    /\ fw_calls < MaxFwCalls
    /\ fw_calls' = fw_calls + 1
    /\ IF e.panics /= {}
       THEN /\ fw_panic' \in e.panics
            /\ fw_rd' = [called |-> TRUE, n |-> n, off0 |-> fw_off, size0 |-> fw_size,
                         ret |-> FALSE, r |-> 0, bn |-> e.bn]
            /\ UNCHANGED fw_off
       ELSE /\ fw_off' = IF e.r > 0 THEN fw_off + e.r ELSE fw_off
            /\ fw_rd' = [called |-> TRUE, n |-> n, off0 |-> fw_off, size0 |-> fw_size,
                         ret |-> TRUE, r |-> e.r, bn |-> e.bn]
            /\ UNCHANGED fw_panic
    /\ UNCHANGED <<fw_size, fw_last>>

(***************************************************************************)
(* --------- Kill and the log (trap.c, proc.c, log.c): a killed ---------- *)
(* --------- process exits from whatever trap it takes next -------------- *)
(***************************************************************************)
NKlProcs == 2      \* user processes other than init, each on its own CPU
MaxKlExits == 2    \* calls of exit by one process (the second from a trap inside exit)

VARIABLES
    kl_state,        \* p->state
    kl_chan,         \* p->chan
    kl_killed,       \* p->killed
    kl_pc,           \* where p executes: "user" or a place in begin_op / end_op
    kl_exits,        \* how often p has called exit()
    kl_intena,       \* interrupts are enabled while p runs (FL_IF)
    kl_wrote,        \* distinct blocks logged by p's open operation
    kl_n,            \* log.lh.n
    kl_outstanding,  \* log.outstanding
    kl_committing,   \* log.committing
    kl_panic

klVars == <<kl_state, kl_chan, kl_killed, kl_pc, kl_exits, kl_intena, kl_wrote, kl_n,
            kl_outstanding, kl_committing, kl_panic>>

KlProcs == 1..NKlProcs

KlInit ==
    /\ kl_state = [p \in KlProcs |-> "RUNNING"]
    /\ kl_chan = [p \in KlProcs |-> "none"]
    /\ kl_killed = [p \in KlProcs |-> FALSE]
    /\ kl_pc = [p \in KlProcs |-> "user"]
    /\ kl_exits = [p \in KlProcs |-> 0]
    /\ kl_intena = [p \in KlProcs |-> TRUE]
    /\ kl_wrote = [p \in KlProcs |-> 0]
    /\ kl_n = 0
    /\ kl_outstanding = 0
    /\ kl_committing = 0
    /\ kl_panic = NoPanic

KlUp == kl_panic = NoPanic
KlAt(p, l) == KlUp /\ kl_state[p] = "RUNNING" /\ kl_pc[p] = l

\* wakeup(&log)
kl_wakeup(st) ==
    [q \in KlProcs |-> IF st[q] = "SLEEPING" /\ kl_chan[q] = "log" THEN "RUNNABLE"
                       ELSE st[q]]

\* scheduler: the CPU of p switches to it when it is RUNNABLE
kl_scheduler(p) ==
    /\ KlUp
    /\ kl_state[p] = "RUNNABLE"
    /\ kl_state' = [kl_state EXCEPT ![p] = "RUNNING"]
    /\ kl_chan' = [kl_chan EXCEPT ![p] = "none"]
    /\ UNCHANGED <<kl_killed, kl_pc, kl_exits, kl_intena, kl_wrote, kl_n, kl_outstanding,
                   kl_committing, kl_panic>>

\* kill(pid) by a process in user mode: killed = 1 and SLEEPING becomes
\* RUNNABLE
kl_kill(q, p) ==
    /\ KlAt(q, "user")
    /\ ~kl_killed[q]
    /\ kl_state[p] /= "ZOMBIE"
    /\ kl_killed' = [kl_killed EXCEPT ![p] = TRUE]
    /\ kl_state' = [kl_state EXCEPT ![p] = IF @ = "SLEEPING" THEN "RUNNABLE" ELSE @]
    /\ UNCHANGED <<kl_chan, kl_pc, kl_exits, kl_intena, kl_wrote, kl_n, kl_outstanding,
                   kl_committing, kl_panic>>

\* trap with myproc()->killed set: exit() is called at the top of trap for
\* any trap, whether the interrupted code ran in user or in kernel mode.
\* A system call comes from user mode through a trap gate, which leaves
\* interrupts enabled; a timer interrupt comes through an interrupt gate
\* whenever interrupts are enabled and clears FL_IF, which stays clear
\* while exit runs.  exit has no files to close and goes on to begin_op.
\* p holds no spinlock at any of its positions.
kl_trap_exit(p, trapno) ==
    /\ KlUp
    /\ kl_state[p] = "RUNNING"
    /\ kl_killed[p]
    /\ kl_exits[p] < MaxKlExits
    /\ IF trapno = T_SYSCALL THEN kl_pc[p] = "user" ELSE kl_intena[p]
    /\ kl_intena' = [kl_intena EXCEPT ![p] = (trapno = T_SYSCALL)]
    /\ kl_exits' = [kl_exits EXCEPT ![p] = @ + 1]
    /\ kl_pc' = [kl_pc EXCEPT ![p] = "begin_op"]
    /\ kl_wrote' = [kl_wrote EXCEPT ![p] = 0]
    /\ UNCHANGED <<kl_state, kl_chan, kl_killed, kl_n, kl_outstanding,
                   kl_committing, kl_panic>>

\* a system call that starts a file-system operation
kl_syscall(p) ==
    /\ KlAt(p, "user")
    /\ ~kl_killed[p]
    /\ kl_pc' = [kl_pc EXCEPT ![p] = "begin_op"]
    /\ UNCHANGED <<kl_state, kl_chan, kl_killed, kl_exits, kl_intena, kl_wrote, kl_n,
                   kl_outstanding, kl_committing, kl_panic>>

\* begin_op: one pass of its loop under log.lock
kl_begin_op(p) ==
    /\ KlAt(p, "begin_op")
    /\ IF kl_committing /= 0 \/ kl_n + (kl_outstanding + 1) * MAXOPBLOCKS > LOGSIZE
       THEN /\ kl_state' = [kl_state EXCEPT ![p] = "SLEEPING"]
            /\ kl_chan' = [kl_chan EXCEPT ![p] = "log"]
            /\ UNCHANGED <<kl_outstanding, kl_pc>>
       ELSE /\ kl_outstanding' = kl_outstanding + 1
            /\ kl_pc' = [kl_pc EXCEPT ![p] = "inop"]
            /\ UNCHANGED <<kl_state, kl_chan>>
    /\ UNCHANGED <<kl_killed, kl_exits, kl_intena, kl_wrote, kl_n, kl_committing, kl_panic>>

\* log_write of a block that is not yet in the header, by a system call
\* (exit's iput of the current directory writes nothing)
kl_log_write(p) ==
    /\ KlAt(p, "inop")
    /\ kl_exits[p] = 0
    /\ kl_wrote[p] < MAXOPBLOCKS
    /\ IF kl_n >= LOGSIZE \/ kl_n >= log_size - 1
       THEN kl_panic' = "too big a transaction" /\ UNCHANGED <<kl_n, kl_wrote>>
       ELSE IF kl_outstanding < 1
       THEN kl_panic' = "log_write outside of trans" /\ UNCHANGED <<kl_n, kl_wrote>>
       ELSE /\ kl_n' = kl_n + 1
            /\ kl_wrote' = [kl_wrote EXCEPT ![p] = @ + 1]
            /\ UNCHANGED kl_panic
    /\ UNCHANGED <<kl_state, kl_chan, kl_killed, kl_pc, kl_exits, kl_intena, kl_outstanding,
                   kl_committing>>

\* where end_op returns to
kl_after_op(p) == IF kl_exits[p] > 0 THEN "exit_zombie" ELSE "user"

\* end_op before acquire(&log.lock): the unlocked test of log.committing
kl_end_op_check(p) ==
    /\ KlAt(p, "inop")
    /\ kl_wrote' = [kl_wrote EXCEPT ![p] = 0]
    /\ IF kl_committing /= 0
       THEN kl_panic' = "log.committing" /\ UNCHANGED kl_pc
       ELSE kl_pc' = [kl_pc EXCEPT ![p] = "end_locked"] /\ UNCHANGED kl_panic
    /\ UNCHANGED <<kl_state, kl_chan, kl_killed, kl_exits, kl_intena, kl_n, kl_outstanding,
                   kl_committing>>

\* end_op under log.lock: outstanding -= 1 and either committing = 1 or
\* wakeup(&log)
kl_end_op_locked(p) ==
    /\ KlAt(p, "end_locked")
    /\ kl_outstanding' = kl_outstanding - 1
    /\ IF kl_outstanding - 1 = 0
       THEN /\ kl_committing' = 1
            /\ UNCHANGED kl_state
       ELSE /\ kl_state' = kl_wakeup(kl_state)
            /\ UNCHANGED kl_committing
    /\ kl_pc' = [kl_pc EXCEPT ![p] = "end_test"]
    /\ UNCHANGED <<kl_chan, kl_killed, kl_exits, kl_intena, kl_wrote, kl_n, kl_panic>>

\* end_op after release(&log.lock): "if (log.committing)", then commit(),
\* which ends with log.lh.n = 0
kl_commit(p) ==
    /\ KlAt(p, "end_test")
    /\ IF kl_committing /= 0
       THEN /\ kl_n' = 0
            /\ kl_pc' = [kl_pc EXCEPT ![p] = "end_clear"]
       ELSE /\ kl_pc' = [kl_pc EXCEPT ![p] = kl_after_op(p)]
            /\ UNCHANGED kl_n
    /\ UNCHANGED <<kl_state, kl_chan, kl_killed, kl_exits, kl_intena, kl_wrote, kl_outstanding,
                   kl_committing, kl_panic>>

\* end_op after commit(): committing = 0 and wakeup(&log) under log.lock
kl_end_op_clear(p) ==
    /\ KlAt(p, "end_clear")
    /\ kl_committing' = 0
    /\ kl_state' = kl_wakeup(kl_state)
    /\ kl_pc' = [kl_pc EXCEPT ![p] = kl_after_op(p)]
    /\ UNCHANGED <<kl_chan, kl_killed, kl_exits, kl_intena, kl_wrote, kl_n, kl_outstanding,
                   kl_panic>>

\* exit under ptable.lock: the state becomes ZOMBIE and sched never returns
kl_exit_zombie(p) ==
    /\ KlAt(p, "exit_zombie")
    /\ kl_state' = [kl_state EXCEPT ![p] = "ZOMBIE"]
    /\ UNCHANGED <<kl_chan, kl_killed, kl_pc, kl_exits, kl_intena, kl_wrote, kl_n,
                   kl_outstanding, kl_committing, kl_panic>>

(***************************************************************************)
(* --------- Sleeplocks over sleep and wakeup (sleeplock.c, proc.c): ----- *)
(* --------- every acquire and release of a spinlock is a step ----------- *)
(***************************************************************************)
NSlProcs == 3        \* processes that use one sleeplock
MaxSlAcquires == 4   \* calls of acquiresleep in one behaviour

VARIABLES
    sl_pc,       \* per process: where it is in acquiresleep, sleep, releasesleep
    sl_state,    \* p->state
    sl_chan,     \* p->chan: "lk" or "0"
    sl_spin,     \* holder of lk->lk, 0 when free
    sl_ptable,   \* holder of ptable.lock, 0 when free
    sl_locked,   \* lk->locked
    sl_pid,      \* lk->pid
    sl_acqs      \* calls of acquiresleep so far

slVars == <<sl_pc, sl_state, sl_chan, sl_spin, sl_ptable, sl_locked, sl_pid, sl_acqs>>

SlProcs == 1..NSlProcs

\* after initsleeplock; every process runs on a CPU of its own
SlInit ==
    /\ sl_pc = [p \in SlProcs |-> "idle"]
    /\ sl_state = [p \in SlProcs |-> "RUNNING"]
    /\ sl_chan = [p \in SlProcs |-> "0"]
    /\ sl_spin = 0
    /\ sl_ptable = 0
    /\ sl_locked = 0
    /\ sl_pid = 0
    /\ sl_acqs = 0

SlAt(p, l) == sl_state[p] = "RUNNING" /\ sl_pc[p] = l

\* a wakeup1 that makes no process RUNNABLE
sl_wakeup1_none(st, chan) == st

\* wakeup1(chan)
sl_wakeup1(st, chan) ==
    [p \in SlProcs |-> IF st[p] = "SLEEPING" /\ sl_chan[p] = chan THEN "RUNNABLE"
                       ELSE st[p]]

\* acquiresleep: acquire(&lk->lk)
sl_acquiresleep(p) ==
    /\ SlAt(p, "idle")
    /\ sl_acqs < MaxSlAcquires
    /\ sl_spin = 0
    /\ sl_spin' = p
    /\ sl_acqs' = sl_acqs + 1
    /\ sl_pc' = [sl_pc EXCEPT ![p] = "acquiresleep_test"]
    /\ UNCHANGED <<sl_state, sl_chan, sl_ptable, sl_locked, sl_pid>>

\* acquiresleep: while (lk->locked) sleep(lk, &lk->lk); then locked = 1,
\* pid = myproc()->pid and release(&lk->lk)
sl_acquiresleep_test(p) ==
    /\ SlAt(p, "acquiresleep_test")
    /\ IF sl_locked /= 0
       THEN /\ sl_pc' = [sl_pc EXCEPT ![p] = "sleep"]
            /\ UNCHANGED <<sl_spin, sl_locked, sl_pid>>
       ELSE /\ sl_locked' = 1
            /\ sl_pid' = p
            /\ sl_spin' = 0
            /\ sl_pc' = [sl_pc EXCEPT ![p] = "held"]
    /\ UNCHANGED <<sl_state, sl_chan, sl_ptable, sl_acqs>>

\* a sleep that goes on to release lk without taking ptable.lock
sl_sleep_acquire_none(p) ==
    /\ SlAt(p, "sleep")
    /\ sl_pc' = [sl_pc EXCEPT ![p] = "sleep_release"]
    /\ UNCHANGED <<sl_state, sl_chan, sl_spin, sl_ptable, sl_locked, sl_pid, sl_acqs>>

\* sleep(chan, lk), lk != &ptable.lock: acquire(&ptable.lock)
sl_sleep_acquire(p) ==
    /\ SlAt(p, "sleep")
    /\ sl_ptable = 0
    /\ sl_ptable' = p
    /\ sl_pc' = [sl_pc EXCEPT ![p] = "sleep_release"]
    /\ UNCHANGED <<sl_state, sl_chan, sl_spin, sl_locked, sl_pid, sl_acqs>>

\* sleep: release(lk)
sl_sleep_release(p) ==
    /\ SlAt(p, "sleep_release")
    /\ sl_spin' = 0
    /\ sl_pc' = [sl_pc EXCEPT ![p] = "sleep_sched"]
    /\ UNCHANGED <<sl_state, sl_chan, sl_ptable, sl_locked, sl_pid, sl_acqs>>

\* sleep: p->chan = chan, p->state = SLEEPING and sched(); the scheduler of
\* the CPU comes back holding ptable.lock and releases it
sl_sleep_sched(p) ==
    /\ SlAt(p, "sleep_sched")
    /\ sl_chan' = [sl_chan EXCEPT ![p] = "lk"]
    /\ sl_state' = [sl_state EXCEPT ![p] = "SLEEPING"]
    /\ sl_ptable' = 0
    /\ sl_pc' = [sl_pc EXCEPT ![p] = "sleep_ret"]
    /\ UNCHANGED <<sl_spin, sl_locked, sl_pid, sl_acqs>>

\* scheduler: under ptable.lock it switches to the RUNNABLE process, which
\* returns from sched inside sleep, clears p->chan and releases ptable.lock
sl_scheduler(p) ==
    /\ sl_state[p] = "RUNNABLE"
    /\ sl_ptable = 0
    /\ sl_state' = [sl_state EXCEPT ![p] = "RUNNING"]
    /\ sl_chan' = [sl_chan EXCEPT ![p] = "0"]
    /\ sl_pc' = [sl_pc EXCEPT ![p] = "sleep_reacquire"]
    /\ UNCHANGED <<sl_spin, sl_ptable, sl_locked, sl_pid, sl_acqs>>

\* sleep: acquire(lk) before it returns to the loop of acquiresleep
sl_sleep_reacquire(p) ==
    /\ SlAt(p, "sleep_reacquire")
    /\ sl_spin = 0
    /\ sl_spin' = p
    /\ sl_pc' = [sl_pc EXCEPT ![p] = "acquiresleep_test"]
    /\ UNCHANGED <<sl_state, sl_chan, sl_ptable, sl_locked, sl_pid, sl_acqs>>

\* releasesleep: acquire(&lk->lk), locked = 0, pid = 0
sl_releasesleep(p) ==
    /\ SlAt(p, "held")
    /\ sl_spin = 0
    /\ sl_spin' = p
    /\ sl_locked' = 0
    /\ sl_pid' = 0
    /\ sl_pc' = [sl_pc EXCEPT ![p] = "wakeup"]
    /\ UNCHANGED <<sl_state, sl_chan, sl_ptable, sl_acqs>>

\* releasesleep: wakeup(lk), that is wakeup1 under ptable.lock
sl_wakeup(p) ==
    /\ SlAt(p, "wakeup")
    /\ sl_ptable = 0
    /\ sl_state' = sl_wakeup1(sl_state, "lk")
    /\ sl_pc' = [sl_pc EXCEPT ![p] = "release"]
    /\ UNCHANGED <<sl_chan, sl_spin, sl_ptable, sl_locked, sl_pid, sl_acqs>>

\* releasesleep: release(&lk->lk)
sl_release(p) ==
    /\ SlAt(p, "release")
    /\ sl_spin' = 0
    /\ sl_pc' = [sl_pc EXCEPT ![p] = "idle"]
    /\ UNCHANGED <<sl_state, sl_chan, sl_ptable, sl_locked, sl_pid, sl_acqs>>

(***************************************************************************)
(* --------- Slot allocation (proc.c): allocproc and fork with each ------ *)
(* --------- acquire and release of ptable.lock as a step ---------------- *)
(***************************************************************************)
NApProcs == 2      \* processes that call fork, each on a CPU of its own
NApSlots == 5      \* slots of ptable.proc

VARIABLES
    ap_pc,       \* per process: where it is inside fork
    ap_np,       \* per process: the slot allocproc chose
    ap_state,    \* p->state of every slot
    ap_lock      \* holder of ptable.lock, 0 when free

apVars == <<ap_pc, ap_np, ap_state, ap_lock>>

ApProcs == 1..NApProcs
ApSlots == 1..NApSlots

\* the callers run in the first slots, the others are UNUSED
ApInit ==
    /\ ap_pc = [p \in ApProcs |-> "user"]
    /\ ap_np = [p \in ApProcs |-> 0]
    /\ ap_state = [s \in ApSlots |-> IF s \in ApProcs THEN "RUNNING" ELSE "UNUSED"]
    /\ ap_lock = 0

\* fork calls allocproc: acquire(&ptable.lock)
allocproc_acquire(p) ==
    /\ ap_pc[p] = "user"
    /\ ap_lock = 0
    /\ ap_lock' = p
    /\ ap_pc' = [ap_pc EXCEPT ![p] = "allocproc_scan"]
    /\ UNCHANGED <<ap_np, ap_state>>

\* allocproc: the scan; the first UNUSED slot becomes EMBRYO; in both cases
\* release(&ptable.lock), and without a slot fork returns -1
allocproc_scan(p) ==
    LET free == {s \in ApSlots : ap_state[s] = "UNUSED"}
        np == IF free = {} THEN 0 ELSE CHOOSE s \in free : \A t \in free : s <= t
    IN
    /\ ap_pc[p] = "allocproc_scan"
    /\ ap_lock' = 0
    /\ IF np = 0
       THEN /\ ap_pc' = [ap_pc EXCEPT ![p] = "user"]
            /\ UNCHANGED <<ap_np, ap_state>>
       ELSE /\ ap_state' = [ap_state EXCEPT ![np] = "EMBRYO"]
            /\ ap_np' = [ap_np EXCEPT ![p] = np]
            /\ ap_pc' = [ap_pc EXCEPT ![p] = "allocproc_kalloc"]

\* allocproc after the release: when kalloc fails, p->state = UNUSED and
\* allocproc returns 0, fork -1
allocproc_kalloc(p, ok) ==
    /\ ap_pc[p] = "allocproc_kalloc"
    /\ IF ok
       THEN /\ ap_pc' = [ap_pc EXCEPT ![p] = "fork_copyuvm"]
            /\ UNCHANGED <<ap_np, ap_state>>
       ELSE /\ ap_state' = [ap_state EXCEPT ![ap_np[p]] = "UNUSED"]
            /\ ap_np' = [ap_np EXCEPT ![p] = 0]
            /\ ap_pc' = [ap_pc EXCEPT ![p] = "user"]
    /\ UNCHANGED ap_lock

\* fork: when copyuvm fails, kfree(np->kstack), np->state = UNUSED, return -1
ap_fork_copyuvm(p, ok) ==
    /\ ap_pc[p] = "fork_copyuvm"
    /\ IF ok
       THEN /\ ap_pc' = [ap_pc EXCEPT ![p] = "fork_acquire"]
            /\ UNCHANGED <<ap_np, ap_state>>
       ELSE /\ ap_state' = [ap_state EXCEPT ![ap_np[p]] = "UNUSED"]
            /\ ap_np' = [ap_np EXCEPT ![p] = 0]
            /\ ap_pc' = [ap_pc EXCEPT ![p] = "user"]
    /\ UNCHANGED ap_lock

\* fork: acquire(&ptable.lock)
ap_fork_acquire(p) ==
    /\ ap_pc[p] = "fork_acquire"
    /\ ap_lock = 0
    /\ ap_lock' = p
    /\ ap_pc' = [ap_pc EXCEPT ![p] = "fork_runnable"]
    /\ UNCHANGED <<ap_np, ap_state>>

\* fork: np->state = RUNNABLE; release(&ptable.lock); return pid
ap_fork_runnable(p) ==
    /\ ap_pc[p] = "fork_runnable"
    /\ ap_state' = [ap_state EXCEPT ![ap_np[p]] = "RUNNABLE"]
    /\ ap_lock' = 0
    /\ ap_np' = [ap_np EXCEPT ![p] = 0]
    /\ ap_pc' = [ap_pc EXCEPT ![p] = "user"]

(***************************************************************************)
(* --------- The IDE request queue (ide.c, bio.c): iderw, ideintr -------- *)
(* --------- and the disk that works on the request idestart gave it ----- *)
(***************************************************************************)
NIdeProcs == 3     \* processes, each on a CPU of its own
NIdeBufs == 3      \* buffers
MaxIdeOps == 3     \* calls of bread and bwrite in one behaviour

VARIABLES
    ide_pc,      \* per process: "user", "iderw" or "iderw_wait"
    ide_state,   \* p->state
    ide_chan,    \* p->chan: the buffer it sleeps on, 0 for none
    ide_buf,     \* per process: the buffer whose sleeplock it holds, 0 for none
    ide_flags,   \* per buffer: [valid, dirty] (B_VALID, B_DIRTY)
    ide_queue,   \* idequeue following qnext, head first
    ide_active,  \* the buffer of the command the disk was last given, 0 for none
    ide_irq,     \* the disk has finished the command and raised IRQ_IDE
    ide_ops      \* calls so far

ideVars == <<ide_pc, ide_state, ide_chan, ide_buf, ide_flags, ide_queue,
             ide_active, ide_irq, ide_ops>>

IdeProcs == 1..NIdeProcs
IdeBufs == 1..NIdeBufs

IdeInit ==
    /\ ide_pc = [p \in IdeProcs |-> "user"]
    /\ ide_state = [p \in IdeProcs |-> "RUNNING"]
    /\ ide_chan = [p \in IdeProcs |-> 0]
    /\ ide_buf = [p \in IdeProcs |-> 0]
    /\ ide_flags = [b \in IdeBufs |-> [valid |-> FALSE, dirty |-> FALSE]]
    /\ ide_queue = <<>>
    /\ ide_active = 0
    /\ ide_irq = FALSE
    /\ ide_ops = 0

IdeAt(p, l) == ide_state[p] = "RUNNING" /\ ide_pc[p] = l
\* (b->flags & (B_VALID | B_DIRTY)) == B_VALID
IdeDone(fl) == fl.valid /\ ~fl.dirty

\* bread of a block that bget gave a recycled buffer (flags = 0), or bwrite
\* (write = TRUE, flags |= B_DIRTY), of a buffer whose sleeplock no other
\* process holds; both call iderw(b)
ide_bread_bwrite(p, b, write) ==
    /\ IdeAt(p, "user")
    /\ ide_ops < MaxIdeOps
    /\ \A q \in IdeProcs : ide_buf[q] /= b
    /\ ide_ops' = ide_ops + 1
    /\ ide_buf' = [ide_buf EXCEPT ![p] = b]
    /\ ide_flags' = [ide_flags EXCEPT ![b] =
                        IF write THEN [@ EXCEPT !.dirty = TRUE]
                        ELSE [valid |-> FALSE, dirty |-> FALSE]]
    /\ ide_pc' = [ide_pc EXCEPT ![p] = "iderw"]
    /\ UNCHANGED <<ide_state, ide_chan, ide_queue, ide_active, ide_irq>>

\* an iderw that puts b in front of the queue
iderw_front(p) ==
    LET b == ide_buf[p] IN
    /\ IdeAt(p, "iderw")
    /\ ide_queue' = <<b>> \o ide_queue
    /\ ide_active' = IF ide_queue = <<>> THEN b ELSE ide_active
    /\ ide_pc' = [ide_pc EXCEPT ![p] = "iderw_wait"]
    /\ UNCHANGED <<ide_state, ide_chan, ide_buf, ide_flags, ide_irq, ide_ops>>

\* iderw under idelock: b goes to the end of idequeue; idestart(b) when b
\* is now the head
ide_iderw(p) ==
    LET b == ide_buf[p] IN
    /\ IdeAt(p, "iderw")
    /\ ide_queue' = Append(ide_queue, b)
    /\ ide_active' = IF Head(ide_queue') = b THEN b ELSE ide_active
    /\ ide_pc' = [ide_pc EXCEPT ![p] = "iderw_wait"]
    /\ UNCHANGED <<ide_state, ide_chan, ide_buf, ide_flags, ide_irq, ide_ops>>

\* iderw, the loop: while the flags are not B_VALID alone, sleep(b,
\* &idelock); then release(&idelock), return, and the caller's brelse
iderw_wait(p) ==
    LET b == ide_buf[p] IN
    /\ IdeAt(p, "iderw_wait")
    /\ IF IdeDone(ide_flags[b])
       THEN /\ ide_pc' = [ide_pc EXCEPT ![p] = "user"]
            /\ ide_buf' = [ide_buf EXCEPT ![p] = 0]
            /\ UNCHANGED <<ide_state, ide_chan>>
       ELSE /\ ide_state' = [ide_state EXCEPT ![p] = "SLEEPING"]
            /\ ide_chan' = [ide_chan EXCEPT ![p] = b]
            /\ UNCHANGED <<ide_pc, ide_buf>>
    /\ UNCHANGED <<ide_flags, ide_queue, ide_active, ide_irq, ide_ops>>

\* the disk finishes the command idestart gave it and raises IRQ_IDE
ide_disk ==
    /\ ide_active /= 0
    /\ ~ide_irq
    /\ ide_irq' = TRUE
    /\ UNCHANGED <<ide_pc, ide_state, ide_chan, ide_buf, ide_flags, ide_queue,
                   ide_active, ide_ops>>

\* ideintr under idelock: the head leaves the queue, gets B_VALID and
\* loses B_DIRTY, wakeup(b), and idestart of the next buffer if there is one
ide_ideintr ==
    /\ ide_irq
    /\ ide_irq' = FALSE
    /\ IF ide_queue = <<>>
       THEN UNCHANGED <<ide_state, ide_flags, ide_queue, ide_active>>
       ELSE LET b == Head(ide_queue) IN
            /\ ide_queue' = Tail(ide_queue)
            /\ ide_flags' = [ide_flags EXCEPT ![b] = [valid |-> TRUE, dirty |-> FALSE]]
            /\ ide_state' = [p \in IdeProcs |->
                                IF ide_state[p] = "SLEEPING" /\ ide_chan[p] = b
                                THEN "RUNNABLE" ELSE ide_state[p]]
            /\ ide_active' = IF ide_queue' /= <<>> THEN Head(ide_queue') ELSE 0
    /\ UNCHANGED <<ide_pc, ide_chan, ide_buf, ide_ops>>

\* scheduler: the woken process returns from sleep, which clears p->chan
ide_scheduler(p) ==
    /\ ide_state[p] = "RUNNABLE"
    /\ ide_state' = [ide_state EXCEPT ![p] = "RUNNING"]
    /\ ide_chan' = [ide_chan EXCEPT ![p] = 0]
    /\ UNCHANGED <<ide_pc, ide_buf, ide_flags, ide_queue, ide_active, ide_irq, ide_ops>>

(***************************************************************************)
(* ------------------------- Specifications ------------------------------ *)
(***************************************************************************)
vars == <<logVars, recVars, spaceVars, lcVars, inoVars, kernVars, trapVars, pipeVars, ptVars, fcVars, fwVars, klVars, slVars, apVars, ideVars>>
notLog == <<recVars, spaceVars, lcVars, inoVars, kernVars, trapVars, pipeVars, ptVars, fcVars, fwVars, klVars, slVars, apVars, ideVars>>
notKern == <<logVars, recVars, spaceVars, lcVars, inoVars, trapVars, pipeVars, ptVars, fcVars, fwVars, klVars, slVars, apVars, ideVars>>
notTrap == <<logVars, recVars, spaceVars, lcVars, inoVars, kernVars, pipeVars, ptVars, fcVars, fwVars, klVars, slVars, apVars, ideVars>>
notPipe == <<logVars, recVars, spaceVars, lcVars, inoVars, kernVars, trapVars, ptVars, fcVars, fwVars, klVars, slVars, apVars, ideVars>>
notRec == <<spaceVars, lcVars, inoVars, kernVars, trapVars, pipeVars, ptVars, fcVars, fwVars, klVars, slVars, apVars, ideVars>>
notSpace == <<logVars, recVars, lcVars, inoVars, kernVars, trapVars, pipeVars, ptVars, fcVars, fwVars, klVars, slVars, apVars, ideVars>>
notLc == <<logVars, recVars, spaceVars, inoVars, kernVars, trapVars, pipeVars, ptVars, fcVars, fwVars, klVars, slVars, apVars, ideVars>>
notIno == <<logVars, recVars, spaceVars, lcVars, kernVars, trapVars, pipeVars, ptVars, fcVars, fwVars, klVars, slVars, apVars, ideVars>>
notPt == <<logVars, recVars, spaceVars, lcVars, inoVars, kernVars, trapVars, pipeVars, fcVars, fwVars, klVars, slVars, apVars, ideVars>>
notFc == <<logVars, recVars, spaceVars, lcVars, inoVars, kernVars, trapVars, pipeVars, ptVars, fwVars, klVars, slVars, apVars, ideVars>>
notFw == <<logVars, recVars, spaceVars, lcVars, inoVars, kernVars, trapVars, pipeVars, ptVars, fcVars, klVars, slVars, apVars, ideVars>>
notKl == <<logVars, recVars, spaceVars, lcVars, inoVars, kernVars, trapVars, pipeVars, ptVars, fcVars, fwVars, slVars, apVars, ideVars>>
notSl == <<logVars, recVars, spaceVars, lcVars, inoVars, kernVars, trapVars, pipeVars, ptVars, fcVars, fwVars, klVars, apVars, ideVars>>
notAp == <<logVars, recVars, spaceVars, lcVars, inoVars, kernVars, trapVars, pipeVars, ptVars, fcVars, fwVars, klVars, slVars, ideVars>>
notIde == <<logVars, recVars, spaceVars, lcVars, inoVars, kernVars, trapVars, pipeVars, ptVars, fcVars, fwVars, klVars, slVars, apVars>>

Init == LogInit /\ RecInit /\ SpaceInit /\ LcInit /\ InoInit /\ KernInit /\ PipeInit /\ PtInit /\ FcInit /\ FwInit /\ KlInit /\ SlInit /\ ApInit /\ IdeInit /\ fw_size = MAXFILE * BSIZE /\ fw_off = fw_size /\ TrapInit /\ tmem = [a \in TAddrs |-> 0]

\* The log under concurrent operations and crash-stops.
NextLog ==
    \/ recover_from_log /\ UNCHANGED notLog
    \/ initlog_return /\ UNCHANGED notLog
    \/ Crash /\ UNCHANGED notLog
    \/ \E p \in LogProcs : begin_op(p) /\ UNCHANGED notLog
    \/ \E p \in LogProcs, b \in HomeBlocks, v \in Values :
            log_write(p, b, v) /\ UNCHANGED notLog
    \/ \E p \in LogProcs : end_op_check(p) /\ UNCHANGED notLog
    \/ \E p \in LogProcs : end_op_locked(p) /\ UNCHANGED notLog
    \/ \E p \in LogProcs : end_op_test(p) /\ UNCHANGED notLog
    \/ \E p \in LogProcs : commit(p) /\ UNCHANGED notLog
    \/ \E p \in LogProcs : write_log(p) /\ UNCHANGED notLog
    \/ \E p \in LogProcs : write_head(p) /\ UNCHANGED notLog
    \/ \E p \in LogProcs : install_trans(p) /\ UNCHANGED notLog
    \/ \E p \in LogProcs : end_op_clear(p) /\ UNCHANGED notLog

SpecLog == Init /\ [][NextLog]_vars

\* initlog on any disk, run twice in a row.
InitRecover ==
    RecoverInit /\ SpaceInit /\ LcInit /\ InoInit /\ KernInit /\ PipeInit /\ PtInit /\ FcInit /\ FwInit /\ KlInit /\ SlInit /\ ApInit /\ IdeInit /\ fw_size = MAXFILE * BSIZE /\ fw_off = fw_size /\ TrapInit /\ tmem = [a \in TAddrs |-> 0]

NextRecover ==
    \/ recover_from_log /\ UNCHANGED <<recVars, notRec>>
    \/ initlog_again /\ UNCHANGED notRec

SpecRecover == InitRecover /\ [][NextRecover]_vars

\* The log's block counts under concurrent operations.
NextSpace ==
    \/ \E p \in SpaceProcs : space_begin_op(p) /\ UNCHANGED notSpace
    \/ \E p \in SpaceProcs, fresh \in BOOLEAN :
            space_log_write(p, fresh) /\ UNCHANGED notSpace
    \/ \E p \in SpaceProcs : space_end_op_check(p) /\ UNCHANGED notSpace
    \/ \E p \in SpaceProcs : space_end_op_locked(p) /\ UNCHANGED notSpace
    \/ \E p \in SpaceProcs : space_commit(p) /\ UNCHANGED notSpace
    \/ \E p \in SpaceProcs : space_end_op_clear(p) /\ UNCHANGED notSpace

SpecSpace == Init /\ [][NextSpace]_vars

\* The buffer cache under reads, logged writes and commits.
NextLc ==
    \/ \E p \in LcProcs, b \in LcBlocks : lc_read(p, b) /\ UNCHANGED notLc
    \/ \E p \in LcProcs : lc_begin_op(p) /\ UNCHANGED notLc
    \/ \E p \in LcProcs, b \in LcBlocks : lc_op_write(p, b) /\ UNCHANGED notLc
    \/ \E p \in LcProcs : lc_end_op(p) /\ UNCHANGED notLc
    \/ \E p \in LcProcs : lc_write_log(p) /\ UNCHANGED notLc
    \/ \E p \in LcProcs : lc_write_head(p) /\ UNCHANGED notLc
    \/ \E p \in LcProcs : lc_install_trans(p) /\ UNCHANGED notLc

SpecLc == Init /\ [][NextLc]_vars

\* The inode cache under concurrent system calls.
NextIno ==
    \/ \E p \in IProcs, i \in Inums : sys_open(p, i) /\ UNCHANGED notIno
    \/ \E p \in IProcs : create(p) /\ UNCHANGED notIno
    \/ \E p \in IProcs : idup(p) /\ UNCHANGED notIno
    \/ \E p \in IProcs : sys_close(p) /\ UNCHANGED notIno
    \/ \E p \in IProcs, i \in Inums : sys_unlink(p, i) /\ UNCHANGED notIno
    \/ \E p \in IProcs : iput(p) /\ UNCHANGED notIno

SpecIno == Init /\ [][NextIno]_vars

NextPt ==
    \/ \E p \in PtSlots : pt_scheduler(p) /\ UNCHANGED notPt
    \/ \E p \in PtSlots : fork_allocproc(p) /\ UNCHANGED notPt
    \/ \E p \in PtSlots, ok \in BOOLEAN : fork_kalloc(p, ok) /\ UNCHANGED notPt
    \/ \E p \in PtSlots, ok \in BOOLEAN : fork_copyuvm(p, ok) /\ UNCHANGED notPt
    \/ \E p \in PtSlots : fork_runnable(p) /\ UNCHANGED notPt
    \/ \E p \in PtSlots : exit_close(p) /\ UNCHANGED notPt
    \/ \E p \in PtSlots : exit_zombie(p) /\ UNCHANGED notPt
    \/ \E p \in PtSlots : wait(p) /\ UNCHANGED notPt
    \/ \E p \in PtSlots, pid \in Pids : pt_kill(p, pid) /\ UNCHANGED notPt

SpecPt == Init /\ [][NextPt]_vars

NextFc ==
    \/ \E p \in FcProcs : fc_fileclose(p) /\ UNCHANGED notFc
    \/ \E p \in FcProcs : fc_sys_unlink(p) /\ UNCHANGED notFc
    \/ \E p \in FcProcs : fc_begin_op(p) /\ UNCHANGED notFc
    \/ \E p \in FcProcs : fc_unlink(p) /\ UNCHANGED notFc
    \/ \E p \in FcProcs : fc_unlink_iput(p) /\ UNCHANGED notFc
    \/ \E p \in FcProcs, hit \in BOOLEAN : fc_iput(p, hit) /\ UNCHANGED notFc
    \/ \E p \in FcProcs : fc_end_op(p) /\ UNCHANGED notFc
    \/ \E p \in FcProcs : fc_commit(p) /\ UNCHANGED notFc
    \/ fc_ideintr /\ UNCHANGED notFc
    \/ \E p \in FcProcs : fc_install_trans(p) /\ UNCHANGED notFc
    \/ \E p \in FcProcs : fc_end_op_clear(p) /\ UNCHANGED notFc
    \/ \E p \in FcProcs : fc_fileclose_rel(p) /\ UNCHANGED notFc

SpecFc == Init /\ [][NextFc]_vars

NextFw ==
    \/ \E n \in FwNs : filewrite_inode(n) /\ UNCHANGED notFw
    \/ \E n \in FwRdNs : fileread_inode(n) /\ UNCHANGED notFw

InitFw ==
    LogInit /\ RecInit /\ SpaceInit /\ LcInit /\ InoInit /\ KernInit /\ PipeInit /\ PtInit /\ FcInit /\ FwInit /\ KlInit /\ SlInit /\ ApInit /\ IdeInit /\ TrapInit /\ tmem = [a \in TAddrs |-> 0]

SpecFw == InitFw /\ [][NextFw]_vars

NextKl ==
    \/ \E p \in KlProcs : kl_scheduler(p) /\ UNCHANGED notKl
    \/ \E q \in KlProcs, p \in KlProcs : kl_kill(q, p) /\ UNCHANGED notKl
    \/ \E p \in KlProcs, trapno \in {T_SYSCALL, T_IRQ0 + IRQ_TIMER} :
            kl_trap_exit(p, trapno) /\ UNCHANGED notKl
    \/ \E p \in KlProcs : kl_syscall(p) /\ UNCHANGED notKl
    \/ \E p \in KlProcs : kl_begin_op(p) /\ UNCHANGED notKl
    \/ \E p \in KlProcs : kl_log_write(p) /\ UNCHANGED notKl
    \/ \E p \in KlProcs : kl_end_op_check(p) /\ UNCHANGED notKl
    \/ \E p \in KlProcs : kl_end_op_locked(p) /\ UNCHANGED notKl
    \/ \E p \in KlProcs : kl_commit(p) /\ UNCHANGED notKl
    \/ \E p \in KlProcs : kl_end_op_clear(p) /\ UNCHANGED notKl
    \/ \E p \in KlProcs : kl_exit_zombie(p) /\ UNCHANGED notKl

\* The scheduler runs every RUNNABLE process; a process inside begin_op,
\* end_op or exit goes on executing, and one that started an operation
\* calls end_op; timer interrupts keep arriving, so a killed process that
\* runs in user mode takes a trap.
SpecKlFair ==
    /\ Init /\ [][NextKl]_vars
    /\ \A p \in KlProcs : WF_vars(kl_scheduler(p) /\ UNCHANGED notKl)
    /\ \A p \in KlProcs : WF_vars(kl_trap_exit(p, T_IRQ0 + IRQ_TIMER) /\ kl_pc[p] = "user" /\ UNCHANGED notKl)
    /\ \A p \in KlProcs : WF_vars(kl_begin_op(p) /\ UNCHANGED notKl)
    /\ \A p \in KlProcs : WF_vars(kl_end_op_check(p) /\ UNCHANGED notKl)
    /\ \A p \in KlProcs : WF_vars(kl_end_op_locked(p) /\ UNCHANGED notKl)
    /\ \A p \in KlProcs : WF_vars(kl_commit(p) /\ UNCHANGED notKl)
    /\ \A p \in KlProcs : WF_vars(kl_end_op_clear(p) /\ UNCHANGED notKl)
    /\ \A p \in KlProcs : WF_vars(kl_exit_zombie(p) /\ UNCHANGED notKl)

\* fork, exit and wait with the timer, without kill
NextPtYield ==
    \/ \E p \in PtSlots : pt_scheduler(p) /\ UNCHANGED notPt
    \/ \E p \in PtSlots : fork_allocproc(p) /\ UNCHANGED notPt
    \/ \E p \in PtSlots, ok \in BOOLEAN : fork_kalloc(p, ok) /\ UNCHANGED notPt
    \/ \E p \in PtSlots, ok \in BOOLEAN : fork_copyuvm(p, ok) /\ UNCHANGED notPt
    \/ \E p \in PtSlots : fork_runnable(p) /\ UNCHANGED notPt
    \/ \E p \in PtSlots : exit_close(p) /\ UNCHANGED notPt
    \/ \E p \in PtSlots : exit_zombie(p) /\ UNCHANGED notPt
    \/ \E p \in PtSlots : wait(p) /\ UNCHANGED notPt
    \/ \E p \in PtSlots : pt_yield(p) /\ UNCHANGED notPt

\* The timer preempts every process in user mode and the scheduler loop runs
\* every RUNNABLE process; a process inside fork, exit or wait goes on with
\* it; the init program, when it runs again and again, calls wait.
SpecPtFair ==
    /\ Init /\ [][NextPtYield]_vars
    /\ \A p \in PtSlots : SF_vars(pt_scheduler(p) /\ UNCHANGED notPt)
    /\ \A p \in PtSlots : WF_vars(pt_yield(p) /\ UNCHANGED notPt)
    /\ \A p \in PtSlots : WF_vars((\E ok \in BOOLEAN : fork_kalloc(p, ok)) /\ UNCHANGED notPt)
    /\ \A p \in PtSlots : WF_vars((\E ok \in BOOLEAN : fork_copyuvm(p, ok)) /\ UNCHANGED notPt)
    /\ \A p \in PtSlots : WF_vars(fork_runnable(p) /\ UNCHANGED notPt)
    /\ \A p \in PtSlots : WF_vars(exit_zombie(p) /\ UNCHANGED notPt)
    /\ \A p \in PtSlots : WF_vars(wait(p) /\ pt_pc[p] = "wait_sleep" /\ UNCHANGED notPt)
    /\ SF_vars(wait(initproc) /\ UNCHANGED notPt)

NextAp ==
    \/ \E p \in ApProcs : allocproc_acquire(p) /\ UNCHANGED notAp
    \/ \E p \in ApProcs : allocproc_scan(p) /\ UNCHANGED notAp
    \/ \E p \in ApProcs, ok \in BOOLEAN : allocproc_kalloc(p, ok) /\ UNCHANGED notAp
    \/ \E p \in ApProcs, ok \in BOOLEAN : ap_fork_copyuvm(p, ok) /\ UNCHANGED notAp
    \/ \E p \in ApProcs : ap_fork_acquire(p) /\ UNCHANGED notAp
    \/ \E p \in ApProcs : ap_fork_runnable(p) /\ UNCHANGED notAp

SpecAp == Init /\ [][NextAp]_vars

NextIde ==
    \/ \E p \in IdeProcs, b \in IdeBufs, write \in BOOLEAN :
            ide_bread_bwrite(p, b, write) /\ UNCHANGED notIde
    \/ \E p \in IdeProcs : ide_iderw(p) /\ UNCHANGED notIde
    \/ \E p \in IdeProcs : iderw_wait(p) /\ UNCHANGED notIde
    \/ ide_disk /\ UNCHANGED notIde
    \/ ide_ideintr /\ UNCHANGED notIde
    \/ \E p \in IdeProcs : ide_scheduler(p) /\ UNCHANGED notIde

\* A process inside iderw goes on executing, the disk finishes the command
\* it was given, its interrupt is delivered and handled, and the scheduler
\* runs a RUNNABLE process.
SpecIdeFair ==
    /\ Init /\ [][NextIde]_vars
    /\ \A p \in IdeProcs : WF_vars(ide_iderw(p) /\ UNCHANGED notIde)
    /\ \A p \in IdeProcs : WF_vars(iderw_wait(p) /\ UNCHANGED notIde)
    /\ WF_vars(ide_disk /\ UNCHANGED notIde)
    /\ WF_vars(ide_ideintr /\ UNCHANGED notIde)
    /\ \A p \in IdeProcs : WF_vars(ide_scheduler(p) /\ UNCHANGED notIde)

NextSl ==
    \/ \E p \in SlProcs : sl_acquiresleep(p) /\ UNCHANGED notSl
    \/ \E p \in SlProcs : sl_acquiresleep_test(p) /\ UNCHANGED notSl
    \/ \E p \in SlProcs : sl_sleep_acquire(p) /\ UNCHANGED notSl
    \/ \E p \in SlProcs : sl_sleep_release(p) /\ UNCHANGED notSl
    \/ \E p \in SlProcs : sl_sleep_sched(p) /\ UNCHANGED notSl
    \/ \E p \in SlProcs : sl_scheduler(p) /\ UNCHANGED notSl
    \/ \E p \in SlProcs : sl_sleep_reacquire(p) /\ UNCHANGED notSl
    \/ \E p \in SlProcs : sl_releasesleep(p) /\ UNCHANGED notSl
    \/ \E p \in SlProcs : sl_wakeup(p) /\ UNCHANGED notSl
    \/ \E p \in SlProcs : sl_release(p) /\ UNCHANGED notSl

\* A running process goes on executing and a holder of the sleeplock
\* releases it; a CPU that spins in acquire gets the spinlock when it is
\* released again and again, and the scheduler loop runs every RUNNABLE
\* process.
SpecSlFair ==
    /\ Init /\ [][NextSl]_vars
    /\ \A p \in SlProcs : WF_vars(sl_acquiresleep_test(p) /\ UNCHANGED notSl)
    /\ \A p \in SlProcs : SF_vars(sl_sleep_acquire(p) /\ UNCHANGED notSl)
    /\ \A p \in SlProcs : WF_vars(sl_sleep_release(p) /\ UNCHANGED notSl)
    /\ \A p \in SlProcs : WF_vars(sl_sleep_sched(p) /\ UNCHANGED notSl)
    /\ \A p \in SlProcs : SF_vars(sl_scheduler(p) /\ UNCHANGED notSl)
    /\ \A p \in SlProcs : SF_vars(sl_sleep_reacquire(p) /\ UNCHANGED notSl)
    /\ \A p \in SlProcs : SF_vars(sl_releasesleep(p) /\ UNCHANGED notSl)
    /\ \A p \in SlProcs : SF_vars(sl_wakeup(p) /\ UNCHANGED notSl)
    /\ \A p \in SlProcs : WF_vars(sl_release(p) /\ UNCHANGED notSl)

NextKern ==
    \/ \E c \in KCpus, p \in KProcs : scheduler(c, p) /\ UNCHANGED notKern
    \/ \E c \in KCpus : scheduler_release(c) /\ UNCHANGED notKern
    \/ \E c \in KCpus, p \in KProcs : sleep(p, c) /\ UNCHANGED notKern
    \/ \E c \in KCpus, p \in KProcs : yield(c, p) /\ UNCHANGED notKern
    \/ \E c \in KCpus, p \in KProcs : yield_return(p, c) /\ UNCHANGED notKern
    \/ \E c \in KCpus, p \in KProcs : acquiresleep(p, c) /\ UNCHANGED notKern
    \/ \E c \in KCpus, p \in KProcs : bget(p, c) /\ UNCHANGED notKern
    \/ \E c \in KCpus, p \in KProcs : bread(p, c) /\ UNCHANGED notKern
    \/ \E c \in KCpus, p \in KProcs : iderw(p, c) /\ UNCHANGED notKern
    \/ \E c \in KCpus : ideintr(c) /\ UNCHANGED notKern
    \/ \E c \in KCpus, p \in KProcs : brelse(p, c) /\ UNCHANGED notKern
    \/ \E c \in KCpus, p \in KProcs : k_begin_op(p, c) /\ UNCHANGED notKern
    \/ \E c \in KCpus, p \in KProcs : k_end_op(p, c) /\ UNCHANGED notKern
    \/ \E c \in KCpus, p \in KProcs : fileclose(p, c) /\ UNCHANGED notKern
    \/ \E c \in KCpus, p \in KProcs, blk \in KBlocks : syscall(p, c, blk) /\ UNCHANGED notKern

SpecKern == Init /\ [][NextKern]_vars

InitTrap == LogInit /\ RecInit /\ SpaceInit /\ LcInit /\ InoInit /\ KernInit /\ PipeInit /\ PtInit /\ FcInit /\ FwInit /\ KlInit /\ SlInit /\ ApInit /\ IdeInit /\ fw_size = MAXFILE * BSIZE /\ fw_off = fw_size /\ TrapInit

NextTrap ==
    \/ \E p \in TProcs, esp \in TEsps : sys_kill(p, esp) /\ UNCHANGED notTrap
    \/ \E p \in TProcs : sys_chdir(p) /\ UNCHANGED notTrap
    \/ \E c \in TCpus, trapno \in HwTraps : trap(c, trapno) /\ UNCHANGED notTrap
    \/ \E c \in TCpus : trap_return(c) /\ UNCHANGED notTrap
    \/ \E p \in TProcs : trap_fault(p) /\ UNCHANGED notTrap

SpecTrap == InitTrap /\ [][NextTrap]_vars

NextPipe ==
    \/ \E p \in PProcs : sys_pipe(p) /\ UNCHANGED notPipe
    \/ \E p \in PProcs, f \in PFiles, n \in 1..MaxN : fileread(p, f, n) /\ UNCHANGED notPipe
    \/ \E p \in PProcs : piperead(p) /\ UNCHANGED notPipe
    \/ \E p \in PProcs, f \in PFiles, n \in 1..MaxN : filewrite(p, f, n) /\ UNCHANGED notPipe
    \/ \E p \in PProcs : pipewrite(p) /\ UNCHANGED notPipe
    \/ \E p \in PProcs, f \in PFiles : fileclose_pipe(p, f) /\ UNCHANGED notPipe
    \/ \E p \in PProcs : p_scheduler(p) /\ UNCHANGED notPipe

SpecPipe == Init /\ [][NextPipe]_vars

\* Creating and closing pipes together with dup, which fills descriptor
\* tables.
NextPipeFd ==
    \/ \E p \in PProcs : sys_pipe(p) /\ UNCHANGED notPipe
    \/ \E p \in PProcs, f \in PFiles : fileclose_pipe(p, f) /\ UNCHANGED notPipe
    \/ \E p \in PProcs, fd \in PFds : sys_dup(p, fd) /\ UNCHANGED notPipe

SpecPipeFd == Init /\ [][NextPipeFd]_vars

\* The scheduler loop runs every RUNNABLE process, and a running process
\* inside piperead or pipewrite goes on executing.
SpecPipeFair ==
    /\ Init /\ [][NextPipe]_vars
    /\ \A p \in PProcs : WF_vars(p_scheduler(p) /\ UNCHANGED notPipe)
    /\ \A p \in PProcs : WF_vars(piperead(p) /\ UNCHANGED notPipe)
    /\ \A p \in PProcs : WF_vars(pipewrite(p) /\ UNCHANGED notPipe)

(***************************************************************************)
(* Properties checked.                                                     *)
(***************************************************************************)
CommitPcs == {"commit", "write_log", "write_head", "install", "erase_head", "end_clear"}

\* C1: after a crash-stop during a commit and the recovery at boot, the home
\* blocks of the transaction are either all unchanged or all hold their new
\* values; a partially installed transaction is never left on disk.
C1_CrashAtomic ==
    (boot = "recovered" /\ crashTxn.active) =>
        \/ dhome = crashTxn.pre
        \/ \A b \in crashTxn.blocks : dhome[b] = crashTxn.new[b]

\* C2: only the end_op call whose decrement brought log.outstanding to 0
\* runs the commit procedure, and at most one process executes commit at a
\* time.
C2_OnlyLastEndOpCommits ==
    /\ \A p \in LogProcs : lpc[p] \in CommitPcs => lzero[p]
    /\ Cardinality({p \in LogProcs : lpc[p] \in CommitPcs}) <= 1

\* C3: while a commit procedure is running no operation is admitted: no
\* begin_op increments log.outstanding and no log_write changes log.lh.
C3_NoAdmissionDuringCommit ==
    [][(\E p \in LogProcs : lpc[p] \in (CommitPcs \ {"end_clear"}))
          => /\ outstanding' <= outstanding
             /\ (\A p \in LogProcs : lpc[p] = "inop" => lh_n' = lh_n /\ lh_block' = lh_block)]_vars

\* C4: bget releases bcache.lock before it calls acquiresleep on the buffer it
\* chose: no process executes acquiresleep (and so can sleep on a buffer that
\* another process has locked) while its CPU holds bcache.lock.
C4_BgetReleasesBeforeAcquiresleep ==
    \A p \in KProcs, c \in KCpus :
        (OnCpu(p, c) /\ (At(p, "acquiresleep") \/ At(p, "acquiresleep_test")))
            => spin[BCACHE] /= c

\* C5: no path reaches sched with ncli different from 1: the kernel never
\* panics with "sched locks", whatever bread, brelse, begin_op, end_op and
\* fileclose the processes execute.
C5_NoSchedLocksPanic == kpanic /= "sched locks"

\* C6: fetching the int argument of a system call fails with -1 when its
\* address is not entirely below p->sz (addr >= sz or addr + 4 > sz), and the
\* system call then returns -1 and changes nothing: after a sys_kill whose
\* argument address is out of range, eax is -1 and no killed flag has changed.
C6_FetchintOutOfRange ==
    (tsys.called /\ (tsys.addr >= TSZ \/ tsys.addr + 4 > TSZ))
        => (tsys.eax = -1 /\ tsys.after = tsys.before)

\* the last entry of the header found at mount that names block b
LastLogged(b) ==
    CHOOSE i \in 1..rdisk0.disk.head.n :
        /\ rdisk0.disk.head.block[i] = b
        /\ \A j \in (i + 1)..rdisk0.disk.head.n : rdisk0.disk.head.block[j] /= b

\* C11: when the header found at mount has a count above 0, recovery copies
\* every logged block to its home location and writes a cleared header: when
\* recovery returns the on-disk header count is 0.
C11_RecoveryClearsHeader ==
    (boot = "recovered" /\ rdisk0.taken /\ rdisk0.disk.head.n > 0) =>
        /\ dhead.n = 0
        /\ \A i \in 1..rdisk0.disk.head.n :
              LET b == rdisk0.disk.head.block[i] IN
              dhome[b] = rdisk0.disk.log[LastLogged(b)]

\* C12: recovery is idempotent: when recover_from_log has run twice in a
\* row, the disk (header, log blocks, home blocks) is as the first run left it.
C12_RecoveryIdempotent ==
    (boot = "recovered" /\ rsnap.taken) => Disk = rsnap.disk

\* a second recovery has returned, after a first one that found logged blocks
\* and changed a home block
C12_Witness ==
    /\ boot = "recovered"
    /\ rsnap.taken
    /\ rdisk0.disk.head.n > 0
    /\ rsnap.disk.home /= rdisk0.disk.home

\* C13: when every operation logs at most MAXOPBLOCKS distinct blocks, no
\* log_write reaches the "too big a transaction" panic.
C13_TooBigUnreachable == ls_panic /= "too big a transaction"

\* C14: the staged header never holds the same block number twice, so
\* log.lh.n is the number of distinct blocks staged; a log_write on a block
\* already in the header adds no entry.
C14_HeaderBlocksDistinct ==
    Cardinality({lh_block[i] : i \in 1..lh_n}) = lh_n

\* the one operation so far has logged a block, then logged it again with
\* the data the disk holds: one entry
C14_Witness ==
    /\ boot = "run"
    /\ nops = 1
    /\ ncrash = 0
    /\ outstanding = 1
    /\ lh_n = 1
    /\ chome[lh_block[1]] = dhome[lh_block[1]]

\* C15: for each (dev, blockno) at most one buffer that is in use (refcnt
\* above 0 or B_VALID) carries that identity, at every moment.
C15_OneBufferPerBlock ==
    \A b1 \in KBufs, b2 \in KBufs :
        ( /\ b1 /= b2
          /\ bufs[b1].refcnt > 0 \/ bufs[b1].valid
          /\ bufs[b2].refcnt > 0 \/ bufs[b2].valid )
        => ~(bufs[b1].dev = bufs[b2].dev /\ bufs[b1].blockno = bufs[b2].blockno)

\* two bread calls of one block hold references on the same buffer
C15_Witness ==
    \E b1 \in KBufs, b2 \in KBufs :
        /\ b1 /= b2
        /\ bufs[b1].refcnt = 2
        /\ bufs[b2].refcnt = 0

\* C16: bget repurposes a buffer only if its refcnt is 0 and B_DIRTY is
\* clear, and never a buffer that was passed to log_write and has not been
\* written to its home block since.
C16_DirtyBufferNotRecycled ==
    \A b \in LcBufs :
        lc_taken[b].taken =>
            /\ lc_taken[b].refcnt = 0
            /\ ~lc_taken[b].dirty
            /\ lc_taken[b].logged /= "pending"

\* bget repurposed a buffer that had been logged and then installed
C16_Witness == \E b \in LcBufs : lc_taken[b].taken /\ lc_taken[b].logged = "written"

\* C17: for each (dev, inum) at most one inode-cache slot with ref > 0
\* carries that identity, at every moment.
C17_OneSlotPerInode ==
    \A s1 \in ISlots, s2 \in ISlots :
        (s1 /= s2 /\ icache[s1].ref > 0 /\ icache[s2].ref > 0)
        => icache[s1].inum /= icache[s2].inum

\* two igets of one inode are counted on one slot while an empty slot exists
C17_Witness ==
    \E s1 \in ISlots, s2 \in ISlots : icache[s1].ref = 2 /\ icache[s2].ref = 0

\* C18: iput truncates an inode and zeroes its on-disk type only when the
\* reference it drops is the only in-memory reference and nlink is 0.
C18_TruncOnlyLastRefNoLink ==
    ifreed.taken => ifreed.ref = 1 /\ ifreed.nlink = 0

\* an iput has freed the blocks of an unlinked inode and zeroed its type
C18_Witness ==
    /\ ifreed.taken
    /\ ifreed.typed
    /\ dinode[ifreed.inum].type = 0
    /\ ~dinode[ifreed.inum].blocks

\* C19: no byte is accepted into a pipe whose read end is closed: pipewrite
\* returns -1 then, also when the buffer has free space.
C19_NoWriteAfterReadClose ==
    [][(pipes.alloc /\ pipes.readopen = 0) => pipes'.nwrite = pipes.nwrite]_vars

CpusOf(p) == {c \in KCpus : kcpu[c].proc = p}
C21_RunningOnOneCpu ==
    \A p \in KProcs :
        /\ Cardinality(CpusOf(p)) <= 1
        /\ kstate[p] = "RUNNING" => Cardinality(CpusOf(p)) = 1
\* a process that started on its own CPU now runs on the other one, after it
\* gave up the CPU in sched and a scheduler loop picked it again
C21_Witness ==
    \E p \in KProcs, c \in KCpus :
        /\ c /= p
        /\ kstate[p] = "RUNNING"
        /\ kcpu[c].proc = p

\* C22: every SLEEPING process has a non-null wait channel, and a step that
\* takes processes out of SLEEPING (wakeup1 on a channel) makes RUNNABLE
\* exactly the processes that slept on that one channel: every sleeper on
\* the channel is woken and no sleeper on a different channel changes.
Woken == {p \in KProcs : kstate[p] = "SLEEPING" /\ kstate'[p] /= "SLEEPING"}
C22_WakeupStep ==
    \A p \in Woken :
        /\ kstate'[p] = "RUNNABLE"
        /\ \A q \in KProcs :
              kstate[q] = "SLEEPING" =>
                 IF kchan[q] = kchan[p]
                 THEN kstate'[q] = "RUNNABLE"
                 ELSE kstate'[q] = "SLEEPING" /\ kchan'[q] = kchan[q]
C22_SleepingHasChan ==
    \A p \in KProcs : kstate[p] = "SLEEPING" => kchan[p] /= NoChan
C22_SleepWakeup == []C22_SleepingHasChan /\ [][C22_WakeupStep]_vars
\* wakeup has made one sleeper RUNNABLE (it has not yet run: its channel is
\* still set and it is inside sleep) while another process still sleeps on
\* a different channel
C22_Witness ==
    \E p, q \in KProcs :
        /\ kstate[p] = "RUNNABLE" /\ At(p, "sleep_ret") /\ kchan[p] /= NoChan
        /\ kstate[q] = "SLEEPING" /\ kchan[q] /= kchan[p]

\* C23: a CPU that holds a spinlock has ncli >= 1 and interrupts disabled;
\* a step enables a CPU's interrupts only when it brings ncli to 0, and the
\* popcli of a release does so only with intena set, where intena is the
\* interrupt flag that pushcli saw at depth 0 (the sti of the scheduler loop
\* and the iret of the timer trap enable interrupts by themselves).
LocksOf(c) == {l \in SpinLocks : spin[l] = c}
C23_HolderHasCli ==
    \A c \in KCpus :
        /\ LocksOf(c) /= {} => kcpu[c].ncli >= 1
        /\ kcpu[c].ncli >= 1 => ~kcpu[c].iflag
        /\ kcpu[c].ncli >= 0
StiOrIret(c) ==
    \/ kcpu[c].proc = 0
    \/ kcpu[c].proc /= 0 /\ At(kcpu[c].proc, "yield_ret")
C23_EnableStep ==
    \A c \in KCpus :
        /\ (~kcpu[c].iflag /\ kcpu'[c].iflag) =>
              /\ kcpu'[c].ncli = 0
              /\ kcpu[c].ncli = 1
              /\ kcpu'[c].intena \/ StiOrIret(c)
        /\ (kcpu[c].ncli = 0 /\ kcpu'[c].ncli >= 1 /\ kticks' = kticks) =>
              kcpu'[c].intena = kcpu[c].iflag
C23_PushPopCli == []C23_HolderHasCli /\ [][C23_EnableStep]_vars
\* a CPU inside two nested acquires, entered with interrupts enabled
C23_Witness ==
    \E c \in KCpus :
        /\ Cardinality(LocksOf(c)) = 2
        /\ kcpu[c].ncli = 2
        /\ kcpu[c].intena
        /\ ~kcpu[c].iflag

\* C24: after fork in a parent and exit in the child, the parent's wait
\* does not block and does not return -1 while a ZOMBIE child exists; when
\* wait reports a pid, that pid belonged to a ZOMBIE child of the caller,
\* wait returns it, and the child's slot is UNUSED afterwards with its
\* kernel stack and its address space freed.
PtZombies(p) == {s \in PtSlots : pt_proc[s].parent = p /\ pt_proc[s].state = "ZOMBIE"}
PtKids(p) == {s \in PtSlots : pt_proc[s].parent = p}
WaitMinusOne == [call |-> "wait", val |-> -1]
C24_WaitStep ==
    /\ \A p \in PtSlots :
          /\ (pt_proc[p].state = "RUNNING" /\ pt_proc'[p].state = "SLEEPING")
                => PtZombies(p) = {}
          /\ (pt_ret'[p] = WaitMinusOne /\ pt_ret[p] /= WaitMinusOne)
                => PtZombies(p) = {}
    /\ \A i \in Pids :
          pt_hist'[i].n /= pt_hist[i].n =>
             LET z == pt_hist'[i].slot
                 by == pt_hist'[i].by
             IN /\ z \in PtZombies(by)
                /\ pt_proc[z].pid = i
                /\ pt_ret'[by] = [call |-> "wait", val |-> i]
                /\ pt_proc'[z].state = "UNUSED"
                /\ ~pt_proc'[z].kstack
                /\ ~pt_proc'[z].pgdir
C24_ForkExitWait == [][C24_WaitStep]_vars
\* a parent forked a child, the child exited, and the parent's wait has
\* just returned the child's pid
C24_Witness ==
    \E i \in Pids :
        /\ pt_hist[i].forker /= 0
        /\ pt_hist[i].by = pt_hist[i].forker
        /\ pt_hist[i].n = 1
        /\ pt_ret[pt_hist[i].by] = [call |-> "wait", val |-> i]
        /\ pt_proc[pt_hist[i].slot].state = "UNUSED"

\* C25: wait reports each exited child at most once; a ZOMBIE keeps its
\* slot, as a ZOMBIE with its pid, in every step but the one in which the
\* wait of its parent returns its pid; and a process without children does
\* not block in wait: wait returns -1.
C25_ReportedOnce == \A i \in Pids : pt_hist[i].n <= 1
C25_WaitStep ==
    /\ \A s \in PtSlots :
          pt_proc[s].state = "ZOMBIE" =>
             \/ /\ pt_proc'[s].state = "ZOMBIE"
                /\ pt_proc'[s].pid = pt_proc[s].pid
                /\ pt_proc'[s].kstack /\ pt_proc'[s].pgdir
             \/ /\ pt_proc[s].parent \in PtSlots
                /\ pt_ret'[pt_proc[s].parent] = [call |-> "wait", val |-> pt_proc[s].pid]
                /\ pt_hist'[pt_proc[s].pid].n = pt_hist[pt_proc[s].pid].n + 1
    /\ \A p \in PtSlots :
          /\ (pt_proc[p].state = "RUNNING" /\ pt_proc'[p].state = "SLEEPING")
                => PtKids(p) /= {}
          /\ (pt_ret'[p].call = "wait" /\ pt_ret[p] /= pt_ret'[p] /\ PtKids(p) = {})
                => pt_ret'[p].val = -1
C25_WaitOnce == []C25_ReportedOnce /\ [][C25_WaitStep]_vars
\* one child has been reported and its slot runs a later process, and the
\* caller of a wait without children got -1
C25_Witness ==
    \E i \in Pids, p \in PtSlots :
        /\ pt_hist[i].n = 1
        /\ pt_proc[pt_hist[i].slot].state /= "UNUSED"
        /\ pt_ret[p] = WaitMinusOne
        /\ PtKids(p) = {}

\* C26: the close of the last descriptor of a file that was unlinked while
\* open does not panic the kernel, and once it has returned and the log is
\* idle the file is reclaimed: its data block is free in the bitmap on disk
\* and its on-disk inode type is 0.
C26_UnlinkedCloseReclaims ==
    /\ \A p \in FcProcs :
          (fc_call[p] = "close" /\ fc_ret[p].nlink = 0) => fc_panic = NoPanic
    /\ \A p \in FcProcs :
          (/\ fc_ret[p].done /\ fc_ret[p].last /\ fc_ret[p].nlink = 0
           /\ fc_log.blocks = {} /\ fc_log.outstanding = 0 /\ fc_log.committing = 0)
             => fc_disk.type = 0 /\ ~fc_disk.bit

\* C27: a write to an inode file that would extend it beyond MAXFILE * BSIZE
\* (140 x 512) bytes returns -1 and changes neither the size nor the
\* contents of the file.
C27_WriteBeyondMaxRejected ==
    (fw_last.called /\ fw_last.off0 + fw_last.n > MAXFILE * BSIZE) =>
        /\ fw_last.r = -1
        /\ fw_last.size1 = fw_last.size0
        /\ fw_last.stored = 0

\* C28: write_head makes the on-disk log header equal to the in-memory
\* header.  After the first header write of a commit (the committer is about
\* to install) the on-disk count is the number of logged blocks and the
\* block numbers are those of log.lh; after the second one the count is 0.
C28_WriteHeadStoresHeader ==
    \A p \in 1..NLogProcs :
        /\ lpc[p] = "install" =>
              /\ dhead.n = lh_n
              /\ \A i \in 1..lh_n : dhead.block[i] = lh_block[i]
        /\ lpc[p] = "end_clear" => dhead.n = 0

\* C29: bget recycles in LRU order.  In a step that gives a buffer which has
\* held a block before to another block, every other buffer with refcnt 0
\* and B_DIRTY clear was released more recently, that is, lies nearer to
\* bcache.head: the recycled buffer is the least recently released one.
ListPos(b) == CHOOSE k \in 1..Len(blist) : blist[k] = b
C29_RecycleStep ==
    \A b \in KBufs :
        (/\ bufs[b].dev = ROOTDEV
         /\ bufs[b].refcnt = 0
         /\ bufs'[b].refcnt = 1
         /\ bufs'[b].blockno /= bufs[b].blockno)
        => \A b2 \in KBufs \ {b} :
              (bufs[b2].refcnt = 0 /\ ~bufs[b2].dirty) => ListPos(b2) < ListPos(b)
C29_LruEviction == [][C29_RecycleStep]_vars

\* C30: between system calls, the reference count of every open-file slot
\* is the number of descriptor-table entries, over all processes, that
\* point to it, and an allocated pipe has a descriptor that refers to one of
\* its files.
DescriptorsOf(f) == {d \in PProcs \X PFds : ofile[d[1]][d[2]] = f}
C30_RefcountMatchesDescriptors ==
    (\A p \in PProcs : ppc[p] = "user") =>
        /\ \A f \in PFiles : ftable[f].ref = Cardinality(DescriptorsOf(f))
        /\ pipes.alloc =>
              \E f \in PFiles : ftable[f].type = "FD_PIPE" /\ DescriptorsOf(f) /= {}

\* C31: a sys_pipe call that cannot succeed (fewer than two free file
\* slots, no free page for the pipe, or no free descriptor in the caller)
\* returns -1 and leaves the file table, the descriptor tables and the pipe
\* page as they were before the call.
FreeFiles == {f \in PFiles : ftable[f].ref = 0}
FreeFds(p) == {fd \in PFds : ofile[p][fd] = 0}
PipeMustFail(p) ==
    Cardinality(FreeFiles) < 2 \/ pipes.alloc \/ FreeFds(p) = {}
C31_FailStep ==
    \A p \in PProcs :
        sys_pipe(p) /\ PipeMustFail(p) =>
            /\ pret'[p] = [call |-> "sys_pipe", r |-> -1]
            /\ ppanic' = NoPanic
            /\ ftable' = ftable /\ ofile' = ofile /\ pipes' = pipes
C31_FailedPipeUnwinds == [][C31_FailStep]_vars

\* C32: a fileread of an inode file with any int count n, negative ones
\* included, does not panic, returns -1 or at most size - off bytes, and
\* passes bmap no block index beyond the last block of the file.
C32_ReadiWithinFile ==
    fw_rd.called =>
        /\ fw_rd.ret
        /\ fw_rd.r = -1 \/ (0 <= fw_rd.r /\ fw_rd.r <= fw_rd.size0 - fw_rd.off0)
        /\ fw_rd.bn >= 0 => fw_rd.bn <= (fw_rd.size0 - 1) \div BSIZE

\* C33: kill(pid) sets killed only in a slot that is in use (state other
\* than UNUSED) and has that pid; without such a slot it returns -1 and
\* changes no slot; and a slot that allocproc takes for a new process has
\* its killed flag clear.
InUseWithPid(pid) == {s \in PtSlots : pt_proc[s].pid = pid /\ pt_proc[s].state /= "UNUSED"}
C33_KillStep ==
    /\ \A p \in PtSlots, pid \in Pids :
          pt_kill(p, pid) =>
             /\ \A s \in PtSlots :
                   pt_proc'[s].killed /= pt_proc[s].killed => s \in InUseWithPid(pid)
             /\ InUseWithPid(pid) = {} =>
                   pt_proc' = pt_proc /\ pt_ret'[p] = [call |-> "kill", val |-> -1]
    /\ \A s \in PtSlots :
          pt_proc[s].state = "UNUSED" /\ pt_proc'[s].state = "EMBRYO" => ~pt_proc'[s].killed
C33_KillOnlyLive == [][C33_KillStep]_vars

\* C34: a process whose killed flag kill has set while it was RUNNING,
\* RUNNABLE or SLEEPING eventually becomes a ZOMBIE (or the kernel panics),
\* when the scheduler keeps running it and timer interrupts keep arriving.
C34_KilledExits ==
    \A p \in KlProcs : kl_killed[p] ~> (kl_state[p] = "ZOMBIE" \/ ~KlUp)

\* C36: a process that has called begin_op is eventually admitted (or the
\* kernel panics), under any interleaving of file-system calls and kills.
C36_BeginOpReturns ==
    \A p \in KlProcs : kl_pc[p] = "begin_op" ~> (kl_pc[p] /= "begin_op" \/ ~KlUp)

\* C35: no wakeup is lost.  A process that found the sleeplock taken and is
\* on its way to sleep has released lk and become SLEEPING on the channel in
\* one step as far as wakeup can see: whenever releasesleep runs its wakeup,
\* every such process is SLEEPING on the channel and the wakeup makes it
\* RUNNABLE; and while the lock is free and no wakeup is pending, no process
\* is asleep on it or about to be.
SlCommitted(p) ==
    \/ sl_pc[p] \in {"sleep", "sleep_release", "sleep_sched"}
    \/ sl_pc[p] = "sleep_ret" /\ sl_state[p] = "SLEEPING"

C35_WakeupStep ==
    \A q \in SlProcs :
        (SlAt(q, "wakeup") /\ sl_pc'[q] = "release") =>
            \A p \in SlProcs :
                SlCommitted(p) =>
                    /\ sl_state[p] = "SLEEPING"
                    /\ sl_chan[p] = "lk"
                    /\ sl_state'[p] = "RUNNABLE"

C35_NoneAsleepOnFreeLock ==
    (sl_locked = 0 /\ \A q \in SlProcs : sl_pc[q] /= "wakeup") =>
        \A p \in SlProcs : ~SlCommitted(p)

C35_NoLostWakeup == []C35_NoneAsleepOnFreeLock /\ [][C35_WakeupStep]_vars

\* a wakeup has just made a sleeper RUNNABLE
C35_Witness ==
    \E q \in SlProcs, p \in SlProcs :
        /\ sl_pc[q] = "release"
        /\ sl_pc[p] = "sleep_ret"
        /\ sl_state[p] = "RUNNABLE"

\* C39: at most one process holds the sleeplock, and the holder is the one
\* lk->pid names; the wakeup of releasesleep makes every process sleeping on
\* the lock RUNNABLE; and a process waiting in acquiresleep eventually holds
\* the lock.
SlHolders == {p \in SlProcs : sl_pc[p] = "held"}

SlWaiting(p) ==
    sl_pc[p] \in {"acquiresleep_test", "sleep", "sleep_release", "sleep_sched",
                  "sleep_ret", "sleep_reacquire"}

C39_OneHolder ==
    /\ Cardinality(SlHolders) <= 1
    /\ \A p \in SlHolders : sl_locked = 1 /\ sl_pid = p

C39_WakesAll ==
    \A q \in SlProcs :
        (SlAt(q, "wakeup") /\ sl_pc'[q] = "release") =>
            \A p \in SlProcs :
                (sl_state[p] = "SLEEPING" /\ sl_chan[p] = "lk") =>
                    sl_state'[p] = "RUNNABLE"

C37_ExitStep ==
    \A p \in PtSlots :
        (PtAt(p, "exit_zombie") /\ pt_pc'[p] = "zombie") =>
            LET kids == {s \in PtSlots : pt_proc[s].parent = p} IN
            /\ \A s \in kids : pt_proc'[s].parent = initproc
            /\ ((\E s \in kids : pt_proc[s].state = "ZOMBIE")
                    /\ pt_proc[initproc].state = "SLEEPING"
                    /\ pt_proc[initproc].chan = initproc)
                => pt_proc'[initproc].state = "RUNNABLE"

C37_OrphansReaped ==
    /\ [][C37_ExitStep]_vars
    /\ \A s \in PtSlots :
          (pt_proc[s].state = "ZOMBIE" /\ pt_proc[s].parent = initproc)
              ~> (pt_proc[s].state = "UNUSED" \/ ~PtUp)

\* initproc has reaped a process that another process forked
C37_Witness ==
    \E i \in Pids :
        /\ pt_hist[i].n >= 1
        /\ pt_hist[i].by = initproc
        /\ pt_hist[i].forker \notin {0, initproc}
        /\ pt_proc[pt_hist[i].slot].state = "UNUSED"

\* C38: whenever the state field of a slot changes, the step that changes
\* it is taken by a process that holds ptable.lock, also when allocproc or
\* fork give the slot back as UNUSED.
C38_Step ==
    \A s \in ApSlots : ap_state'[s] /= ap_state[s] => ap_lock /= 0

C38_StateUnderLock == [][C38_Step]_vars

\* C40: the request queue changes only by iderw adding a buffer at its end
\* and by ideintr removing its head; the buffer the disk works on is the
\* head of the queue and nothing else; the step of ideintr that removes the
\* head leaves it B_VALID and not B_DIRTY and makes the process sleeping on
\* it RUNNABLE; and every process that entered iderw returns from it, with
\* its buffer B_VALID and not B_DIRTY.
C40_HeadIsActive ==
    ide_active = IF ide_queue = <<>> THEN 0 ELSE Head(ide_queue)

C40_QueueStep ==
    \/ ide_queue' = ide_queue
    \/ \E p \in IdeProcs :
          /\ ide_pc[p] = "iderw"
          /\ ide_queue' = Append(ide_queue, ide_buf[p])
    \/ /\ ide_queue /= <<>>
       /\ ide_irq
       /\ ide_queue' = Tail(ide_queue)
       /\ IdeDone(ide_flags'[Head(ide_queue)])
       /\ \A p \in IdeProcs :
             (ide_pc[p] = "iderw_wait" /\ ide_buf[p] = Head(ide_queue)) =>
                 ide_state'[p] \in {"RUNNABLE", "RUNNING"}

C40_ReturnStep ==
    \A p \in IdeProcs :
        (ide_pc[p] = "iderw_wait" /\ ide_pc'[p] = "user") =>
            IdeDone(ide_flags[ide_buf[p]])

C40_DiskFifo ==
    /\ []C40_HeadIsActive
    /\ [][C40_QueueStep /\ C40_ReturnStep]_vars
    /\ \A p \in IdeProcs : (ide_pc[p] = "iderw") ~> (ide_pc[p] = "user")

\* ideintr has completed the head of a queue of three requests and woken the
\* process that slept on it
C40_Witness ==
    /\ Len(ide_queue) = 2
    /\ ide_active = Head(ide_queue)
    /\ \E p \in IdeProcs :
          /\ ide_pc[p] = "iderw_wait"
          /\ ide_state[p] = "RUNNABLE"
          /\ IdeDone(ide_flags[ide_buf[p]])
          /\ \A i \in 1..Len(ide_queue) : ide_queue[i] /= ide_buf[p]

\* C7: a successful pipe system call reports two distinct descriptors fd[0]
\* and fd[1], both installed in the caller's table: fd[0] a readable,
\* non-writable open file, fd[1] a writable, non-readable one, both on the
\* same newly allocated pipe.
C7_PipeInstallsTwoDescriptors ==
    \A p \in PProcs :
        pret[p] = [call |-> "sys_pipe", r |-> 0] =>
            /\ ufd[p][1] /= ufd[p][2]
            /\ ofile[p][ufd[p][1]] /= 0
            /\ ofile[p][ufd[p][2]] /= 0
            /\ ftable[ofile[p][ufd[p][1]]].readable = 1
            /\ ftable[ofile[p][ufd[p][1]]].writable = 0
            /\ ftable[ofile[p][ufd[p][2]]].readable = 0
            /\ ftable[ofile[p][ufd[p][2]]].writable = 1
            /\ ftable[ofile[p][ufd[p][1]]].pipe = ftable[ofile[p][ufd[p][2]]].pipe

\* C8: closing one end of a pipe unblocks the other end: a process sleeping
\* in piperead on an empty pipe whose write end is closed eventually
\* returns 0, and a process sleeping in pipewrite on a full pipe whose read
\* end is closed eventually returns -1.
C8_CloseUnblocksOtherEnd ==
    \A p \in PProcs :
        /\ (ppc[p] = "piperead" /\ pstate[p] = "SLEEPING" /\ pipes.writeopen = 0)
              ~> (ppc[p] = "user" /\ pret[p] = [call |-> "piperead", r |-> 0])
        /\ (ppc[p] = "pipewrite" /\ pstate[p] = "SLEEPING" /\ pipes.readopen = 0)
              ~> (ppc[p] = "user" /\ pret[p] = [call |-> "pipewrite", r |-> -1])

\* C9: a killed process exits only on its way back to user space: exit is
\* never entered from a trap that interrupted the process in kernel mode
\* (between begin_op and end_op, or holding the inode's sleeplock).
C9_ExitOnlyFromUserMode ==
    \A p \in TProcs : texit[p] \in {"none", "user"}

\* C10: every timer, IDE, keyboard and UART interrupt that reaches trap is
\* routed to its handler and acknowledged with lapiceoi, also when the
\* process running on that CPU is marked killed.
C10_InterruptRoutedAndAcked ==
    tlast.trapno \in HwTraps => (tlast.routed /\ tlast.eoi)

====
